---- MODULE Spec2Model ----
(***************************************************************************)
(* Model of the OpenAI-style protocol adapter's streaming state machine    *)
(* (src-tauri/src/llm/protocols/openai_protocol.rs): parse_stream_event,   *)
(* parse_tool_delta and emit_tool_calls acting on one ProtocolStreamState, *)
(* together with a caller that feeds frames and drains pending_events.     *)
(*                                                                         *)
(* Strings that the code inspects character by character (tool-call        *)
(* argument buffers, raw frame text) are sequences of one-token strings.   *)
(* Option<T> is a sequence of length 0 (None) or 1 (Some).                 *)
(***************************************************************************)
EXTENDS Integers, Sequences, FiniteSets, TLC

VARIABLES
    tool_call_index_map,  \* stream index -> tool_call_id
    tool_calls,           \* key -> ToolCallAccum
    tool_call_order,      \* keys in first-seen order
    emitted_tool_calls,   \* keys already surfaced
    pending_events,       \* FIFO of synthesized events
    text_started,
    finish_reason,        \* Option<String>
    calls,                \* number of frames fed so far
    lastKind,             \* kind of the last frame fed: "none", "done", "bad", "json"
    ret,                  \* result of the last call
    delivered,            \* events handed to the caller, in order
    synth,                \* events synthesized by the adapter, in order
    phase,                \* "feed": caller feeds frames; "drain": caller only sends [DONE]
    whole,                \* concatenation of the argument fragments sent for the tracked call
    frame,                \* the frame of the last call, in the specifications that record it
    args,                 \* arguments of the request builder under check
    result,               \* what the request builder returned for args
    streams,              \* the streams of the interleaving specification, each with its own state
    PTY_SESSIONS,         \* ids of the sessions in the terminal registry
    reader,               \* pty id -> position of the session's reader task
    app_events,           \* events emitted to the application, in order
    pty_ret,              \* result of the last terminal command
    killed                \* pty id -> number of events emitted when pty_kill returned Ok

stateVars == <<tool_call_index_map, tool_calls, tool_call_order, emitted_tool_calls,
               pending_events, text_started, finish_reason>>
vars == <<tool_call_index_map, tool_calls, tool_call_order, emitted_tool_calls,
          pending_events, text_started, finish_reason,
          calls, lastKind, ret, delivered, synth, phase, whole, frame, args, result, streams,
          PTY_SESSIONS, reader, app_events, pty_ret, killed>>
builderVars == <<args, result>>
ptyVars == <<PTY_SESSIONS, reader, app_events, pty_ret, killed>>
sideVars == <<args, result, streams, ptyVars>>

(***************************************************************************)
(* Bounds                                                                  *)
(***************************************************************************)
MaxCalls == 3
MaxArgLen == 3
MaxDrainFeed == 2
MaxToolFrames == 3
MaxFrames == 3
MaxTools == 2
MaxIsoFrames == 2
MaxItems == 4
MaxParts == 2
MaxResults == 2
MaxMessages == 2
MaxPtys == 1
MaxReads == 2

(***************************************************************************)
(* Option, strings, JSON values                                            *)
(***************************************************************************)
None == <<>>
Some(x) == <<x>>
IsSome(o) == Len(o) > 0
Unwrap(o) == o[1]

NoIndex == -1

IsWhitespace(c) == c \in {" ", "\n"}

RECURSIVE TrimStart(_)
TrimStart(s) ==
    IF s # <<>> /\ IsWhitespace(Head(s)) THEN TrimStart(Tail(s)) ELSE s

RECURSIVE TrimEnd(_)
TrimEnd(s) ==
    IF s # <<>> /\ IsWhitespace(s[Len(s)]) THEN TrimEnd(SubSeq(s, 1, Len(s) - 1)) ELSE s

Trim(s) == TrimEnd(TrimStart(s))

JObject == [j |-> "object"]
JNumber(n) == [j |-> "number", n |-> n]
JString(s) == [j |-> "string", s |-> s]
JNull == [j |-> "null"]

RECURSIVE DigitsValue(_)
DigitsValue(s) ==
    IF s = <<>> THEN 0 ELSE 10 * DigitsValue(SubSeq(s, 1, Len(s) - 1)) + 1

\* serde_json::from_str on a text over the alphabet { "{", "}", "1", " " }:
\* surrounding whitespace is skipped, the value is a number made of digits or
\* an empty object (whitespace allowed between the braces); anything else,
\* the empty text included, is a parse error (None).
FromStr(s) ==
    LET t == Trim(s) IN
    IF t = <<>> THEN None
    ELSE IF \A i \in 1..Len(t) : t[i] = "1" THEN Some(JNumber(DigitsValue(t)))
    ELSE IF /\ Len(t) >= 2
            /\ t[1] = "{"
            /\ t[Len(t)] = "}"
            /\ \A i \in 2..(Len(t) - 1) : IsWhitespace(t[i])
         THEN Some(JObject)
    ELSE None

\* Value::to_string for the non-string JSON values of the model
ValueToString(v) ==
    IF v.j = "object" THEN <<"{", "}">> ELSE <<"1">>

\* u64::to_string for the stream indexes of the model
IndexToString(i) == <<"0", "1", "2", "3">>[i + 1]

(***************************************************************************)
(* StreamEvent                                                             *)
(***************************************************************************)
TextStart == [type |-> "TextStart"]
TextDelta(t) == [type |-> "TextDelta", text |-> t]
ToolCall(id, name, input) ==
    [type |-> "ToolCall", tool_call_id |-> id, tool_name |-> name, input |-> input]
Usage(i, o, t) ==
    [type |-> "Usage", input_tokens |-> i, output_tokens |-> o, total_tokens |-> t,
     cached_input_tokens |-> None, cache_creation_input_tokens |-> None]
Done(fr) == [type |-> "Done", finish_reason |-> fr]

(***************************************************************************)
(* ProtocolStreamState as a record                                         *)
(***************************************************************************)
EmptyMap == [x \in {} |-> x]

ProtocolStreamStateDefault ==
    [tool_call_index_map |-> EmptyMap,
     tool_calls |-> EmptyMap,
     tool_call_order |-> <<>>,
     emitted_tool_calls |-> {},
     pending_events |-> <<>>,
     text_started |-> FALSE,
     finish_reason |-> None]

CurrentState ==
    [tool_call_index_map |-> tool_call_index_map,
     tool_calls |-> tool_calls,
     tool_call_order |-> tool_call_order,
     emitted_tool_calls |-> emitted_tool_calls,
     pending_events |-> pending_events,
     text_started |-> text_started,
     finish_reason |-> finish_reason]

Push(st, ev) == [st EXCEPT !.pending_events = Append(@, ev)]

Contains(seq, x) == \E i \in 1..Len(seq) : seq[i] = x

(***************************************************************************)
(* parse_tool_delta                                                        *)
(***************************************************************************)
ArgAbsent == [k |-> "absent"]
ArgStr(s) == [k |-> "str", s |-> s]
ArgJson(v) == [k |-> "json", v |-> v]

\* variant: a string fragment overwrites the buffer instead of being appended
UpdateArguments_Overwrite(arguments, args_value) ==
    IF args_value.k = "str"
    THEN IF args_value.s # <<>> THEN args_value.s ELSE arguments
    ELSE IF args_value.k = "json" /\ arguments = <<>> THEN ValueToString(args_value.v)
    ELSE arguments

\* variant: a non-string value replaces the buffer even when it is not empty
UpdateArguments_JsonReplaces(arguments, args_value) ==
    IF args_value.k = "str"
    THEN IF args_value.s # <<>> THEN arguments \o args_value.s ELSE arguments
    ELSE IF args_value.k = "json" THEN ValueToString(args_value.v)
    ELSE arguments

\* lines 297-305: the arguments update of one entry
UpdateArguments(arguments, args_value) ==
    IF args_value.k = "str"
    THEN IF args_value.s # <<>> THEN arguments \o args_value.s ELSE arguments
    ELSE IF args_value.k = "json" /\ arguments = <<>> THEN ValueToString(args_value.v)
    ELSE arguments

\* variant: an index that resolves to no known id yields no key
ResolveKey_NoSynthetic(entry, st) ==
    IF entry.id # "" THEN entry.id
    ELSE IF entry.index # NoIndex
    THEN IF entry.index \in DOMAIN st.tool_call_index_map
         THEN st.tool_call_index_map[entry.index]
         ELSE IF entry.index + 1 <= Len(st.tool_call_order)
              THEN st.tool_call_order[entry.index + 1]
              ELSE ""
    ELSE ""

\* variant: the id recorded for the index is preferred to the entry's own id
ResolveKey_MapFirst(entry, st) ==
    IF entry.index # NoIndex /\ entry.index \in DOMAIN st.tool_call_index_map
    THEN st.tool_call_index_map[entry.index]
    ELSE IF entry.id # "" THEN entry.id
    ELSE IF entry.index # NoIndex
    THEN IF entry.index + 1 <= Len(st.tool_call_order)
         THEN st.tool_call_order[entry.index + 1]
         ELSE IndexToString(entry.index)
    ELSE ""

\* lines 251-265: correlation key of one entry ("" when it has neither id nor index)
ResolveKey(entry, st) ==
    IF entry.id # "" THEN entry.id
    ELSE IF entry.index # NoIndex
    THEN IF entry.index \in DOMAIN st.tool_call_index_map
         THEN st.tool_call_index_map[entry.index]
         ELSE IF entry.index + 1 <= Len(st.tool_call_order)
              THEN st.tool_call_order[entry.index + 1]
              ELSE IndexToString(entry.index)
    ELSE ""

\* variant: the incoming name is stored even when it is empty
ParseToolDeltaEntry_NameOverwrite(entry, st) ==
    LET st1 == IF /\ entry.index # NoIndex
                  /\ entry.id # ""
                  /\ entry.index \notin DOMAIN st.tool_call_index_map
               THEN [st EXCEPT !.tool_call_index_map = @ @@ (entry.index :> entry.id)]
               ELSE st
        key == ResolveKey(entry, st1)
    IN
    IF key = "" THEN st1
    ELSE
        LET acc0 == IF key \in DOMAIN st1.tool_calls
                    THEN st1.tool_calls[key]
                    ELSE [tool_call_id |-> IF entry.id = "" THEN key ELSE entry.id,
                          tool_name |-> entry.name,
                          arguments |-> <<>>]
            acc == [tool_call_id |-> IF entry.id # "" THEN entry.id ELSE acc0.tool_call_id,
                    tool_name |-> entry.name,
                    arguments |-> UpdateArguments(acc0.arguments, entry.arguments)]
        IN [st1 EXCEPT
              !.tool_calls = (key :> acc) @@ @,
              !.tool_call_order = IF Contains(@, key) THEN @ ELSE Append(@, key)]

\* variant: the key is pushed to tool_call_order for every entry
ParseToolDeltaEntry_PushAlways(entry, st) ==
    LET st1 == IF /\ entry.index # NoIndex
                  /\ entry.id # ""
                  /\ entry.index \notin DOMAIN st.tool_call_index_map
               THEN [st EXCEPT !.tool_call_index_map = @ @@ (entry.index :> entry.id)]
               ELSE st
        key == ResolveKey(entry, st1)
    IN
    IF key = "" THEN st1
    ELSE
        LET acc0 == IF key \in DOMAIN st1.tool_calls
                    THEN st1.tool_calls[key]
                    ELSE [tool_call_id |-> IF entry.id = "" THEN key ELSE entry.id,
                          tool_name |-> entry.name,
                          arguments |-> <<>>]
            acc == [tool_call_id |-> IF entry.id # "" THEN entry.id ELSE acc0.tool_call_id,
                    tool_name |-> IF entry.name # "" THEN entry.name ELSE acc0.tool_name,
                    arguments |-> UpdateArguments(acc0.arguments, entry.arguments)]
        IN [st1 EXCEPT
              !.tool_calls = (key :> acc) @@ @,
              !.tool_call_order = Append(@, key)]

\* variant: an entry with id and index replaces the id recorded for the index
ParseToolDeltaEntry_MapOverwrite(entry, st) ==
    LET st1 == IF entry.index # NoIndex /\ entry.id # ""
               THEN [st EXCEPT !.tool_call_index_map = (entry.index :> entry.id) @@ @]
               ELSE st
        key == ResolveKey(entry, st1)
    IN
    IF key = "" THEN st1
    ELSE
        LET acc0 == IF key \in DOMAIN st1.tool_calls
                    THEN st1.tool_calls[key]
                    ELSE [tool_call_id |-> IF entry.id = "" THEN key ELSE entry.id,
                          tool_name |-> entry.name,
                          arguments |-> <<>>]
            acc == [tool_call_id |-> IF entry.id # "" THEN entry.id ELSE acc0.tool_call_id,
                    tool_name |-> IF entry.name # "" THEN entry.name ELSE acc0.tool_name,
                    arguments |-> UpdateArguments(acc0.arguments, entry.arguments)]
        IN [st1 EXCEPT
              !.tool_calls = (key :> acc) @@ @,
              !.tool_call_order = IF Contains(@, key) THEN @ ELSE Append(@, key)]

\* variant: an entry for a key that was already emitted is dropped
ParseToolDeltaEntry_SkipEmitted(entry, st) ==
    LET st1 == IF /\ entry.index # NoIndex
                  /\ entry.id # ""
                  /\ entry.index \notin DOMAIN st.tool_call_index_map
               THEN [st EXCEPT !.tool_call_index_map = @ @@ (entry.index :> entry.id)]
               ELSE st
        key == ResolveKey(entry, st1)
    IN
    IF key = "" \/ key \in st1.emitted_tool_calls THEN st1
    ELSE
        LET acc0 == IF key \in DOMAIN st1.tool_calls
                    THEN st1.tool_calls[key]
                    ELSE [tool_call_id |-> IF entry.id = "" THEN key ELSE entry.id,
                          tool_name |-> entry.name,
                          arguments |-> <<>>]
            acc == [tool_call_id |-> IF entry.id # "" THEN entry.id ELSE acc0.tool_call_id,
                    tool_name |-> IF entry.name # "" THEN entry.name ELSE acc0.tool_name,
                    arguments |-> UpdateArguments(acc0.arguments, entry.arguments)]
        IN [st1 EXCEPT
              !.tool_calls = (key :> acc) @@ @,
              !.tool_call_order = IF Contains(@, key) THEN @ ELSE Append(@, key)]

\* variant: a key resolved without an id is not appended to tool_call_order
ParseToolDeltaEntry_OrderIdsOnly(entry, st) ==
    LET st1 == IF /\ entry.index # NoIndex
                  /\ entry.id # ""
                  /\ entry.index \notin DOMAIN st.tool_call_index_map
               THEN [st EXCEPT !.tool_call_index_map = @ @@ (entry.index :> entry.id)]
               ELSE st
        key == ResolveKey(entry, st1)
    IN
    IF key = "" THEN st1
    ELSE
        LET acc0 == IF key \in DOMAIN st1.tool_calls
                    THEN st1.tool_calls[key]
                    ELSE [tool_call_id |-> IF entry.id = "" THEN key ELSE entry.id,
                          tool_name |-> entry.name,
                          arguments |-> <<>>]
            acc == [tool_call_id |-> IF entry.id # "" THEN entry.id ELSE acc0.tool_call_id,
                    tool_name |-> IF entry.name # "" THEN entry.name ELSE acc0.tool_name,
                    arguments |-> UpdateArguments(acc0.arguments, entry.arguments)]
        IN [st1 EXCEPT
              !.tool_calls = (key :> acc) @@ @,
              !.tool_call_order = IF Contains(@, key) \/ entry.id = ""
                                  THEN @ ELSE Append(@, key)]

\* variant: a new accumulator stores the id as the entry sent it, also when empty
ParseToolDeltaEntry_IdAsSent(entry, st) ==
    LET st1 == IF /\ entry.index # NoIndex
                  /\ entry.id # ""
                  /\ entry.index \notin DOMAIN st.tool_call_index_map
               THEN [st EXCEPT !.tool_call_index_map = @ @@ (entry.index :> entry.id)]
               ELSE st
        key == ResolveKey(entry, st1)
    IN
    IF key = "" THEN st1
    ELSE
        LET acc0 == IF key \in DOMAIN st1.tool_calls
                    THEN st1.tool_calls[key]
                    ELSE [tool_call_id |-> entry.id,
                          tool_name |-> entry.name,
                          arguments |-> <<>>]
            acc == [tool_call_id |-> IF entry.id # "" THEN entry.id ELSE acc0.tool_call_id,
                    tool_name |-> IF entry.name # "" THEN entry.name ELSE acc0.tool_name,
                    arguments |-> UpdateArguments(acc0.arguments, entry.arguments)]
        IN [st1 EXCEPT
              !.tool_calls = (key :> acc) @@ @,
              !.tool_call_order = IF Contains(@, key) THEN @ ELSE Append(@, key)]

\* lines 237-309: the body of the loop for one entry of delta.tool_calls
ParseToolDeltaEntry(entry, st) ==
    LET st1 == IF /\ entry.index # NoIndex
                  /\ entry.id # ""
                  /\ entry.index \notin DOMAIN st.tool_call_index_map
               THEN [st EXCEPT !.tool_call_index_map = @ @@ (entry.index :> entry.id)]
               ELSE st
        key == ResolveKey(entry, st1)
    IN
    IF key = "" THEN st1
    ELSE
        LET acc0 == IF key \in DOMAIN st1.tool_calls
                    THEN st1.tool_calls[key]
                    ELSE [tool_call_id |-> IF entry.id = "" THEN key ELSE entry.id,
                          tool_name |-> entry.name,
                          arguments |-> <<>>]
            acc == [tool_call_id |-> IF entry.id # "" THEN entry.id ELSE acc0.tool_call_id,
                    tool_name |-> IF entry.name # "" THEN entry.name ELSE acc0.tool_name,
                    arguments |-> UpdateArguments(acc0.arguments, entry.arguments)]
        IN [st1 EXCEPT
              !.tool_calls = (key :> acc) @@ @,
              !.tool_call_order = IF Contains(@, key) THEN @ ELSE Append(@, key)]

RECURSIVE ParseToolDeltaEntries(_, _)
ParseToolDeltaEntries(entries, st) ==
    IF entries = <<>> THEN st
    ELSE ParseToolDeltaEntries(Tail(entries), ParseToolDeltaEntry(Head(entries), st))

\* delta.tool_calls is None when the member is absent or not an array
ParseToolDelta(delta, st) ==
    IF ~IsSome(delta.tool_calls) THEN st
    ELSE ParseToolDeltaEntries(Unwrap(delta.tool_calls), st)

(***************************************************************************)
(* emit_tool_calls                                                         *)
(***************************************************************************)
\* variant: the buffer is always wrapped as a JSON string
EmitInput_Raw(arguments) ==
    IF Trim(arguments) = <<>> THEN JObject ELSE JString(arguments)

\* variant: a blank buffer is parsed, and wrapped as a string, like any other
EmitInput_BlankAsString(arguments) ==
    IF IsSome(FromStr(arguments)) THEN Unwrap(FromStr(arguments)) ELSE JString(arguments)

\* lines 326-335: the input value of an emitted ToolCall
EmitInput(arguments) ==
    IF Trim(arguments) = <<>> THEN JObject
    ELSE IF IsSome(FromStr(arguments)) THEN Unwrap(FromStr(arguments))
    ELSE JString(arguments)

\* variant: the key is not recorded in emitted_tool_calls
EmitOne_NoMark(key, st, force) ==
    IF key \in st.emitted_tool_calls THEN st
    ELSE IF key \notin DOMAIN st.tool_calls THEN st
    ELSE LET acc == st.tool_calls[key] IN
         IF acc.tool_name = "" THEN st
         ELSE IF ~force /\ Trim(acc.arguments) = <<>> THEN st
         ELSE Push(st, ToolCall(acc.tool_call_id, acc.tool_name, EmitInput(acc.arguments)))

\* variant: a forced flush also emits accumulators without a name
EmitOne_NamelessOnForce(key, st, force) ==
    IF key \in st.emitted_tool_calls THEN st
    ELSE IF key \notin DOMAIN st.tool_calls THEN st
    ELSE LET acc == st.tool_calls[key] IN
         IF acc.tool_name = "" /\ ~force THEN st
         ELSE IF ~force /\ Trim(acc.arguments) = <<>> THEN st
         ELSE [Push(st, ToolCall(acc.tool_call_id, acc.tool_name, EmitInput(acc.arguments)))
                  EXCEPT !.emitted_tool_calls = @ \cup {key}]

\* lines 315-339: the body of the loop for one key of tool_call_order
EmitOne(key, st, force) ==
    IF key \in st.emitted_tool_calls THEN st
    ELSE IF key \notin DOMAIN st.tool_calls THEN st
    ELSE LET acc == st.tool_calls[key] IN
         IF acc.tool_name = "" THEN st
         ELSE IF ~force /\ Trim(acc.arguments) = <<>> THEN st
         ELSE [Push(st, ToolCall(acc.tool_call_id, acc.tool_name, EmitInput(acc.arguments)))
                  EXCEPT !.emitted_tool_calls = @ \cup {key}]

RECURSIVE EmitKeys(_, _, _)
EmitKeys(keys, st, force) ==
    IF keys = <<>> THEN st
    ELSE EmitKeys(Tail(keys), EmitOne(Head(keys), st, force), force)

EmitToolCalls(st, force) == EmitKeys(st.tool_call_order, st, force)

(***************************************************************************)
(* parse_stream_event                                                      *)
(***************************************************************************)
RetNone == [tag |-> "none"]
RetErr == [tag |-> "err"]
RetEvent(ev) == [tag |-> "event", ev |-> ev]
NoCall == [tag |-> "nocall"]
NoFrame == [kind |-> "none"]
NoArgs == [fn |-> "none"]
NoResult == [tag |-> "none"]

\* variant: the newest queued event is returned instead of the oldest
PopPending_Last(st) ==
    IF st.pending_events # <<>>
    THEN [st |-> [st EXCEPT !.pending_events = SubSeq(@, 1, Len(@) - 1)],
          ret |-> RetEvent(st.pending_events[Len(st.pending_events)])]
    ELSE [st |-> st, ret |-> RetNone]

\* variant: the returned event is left in the queue
PopPending_NoRemove(st) ==
    IF st.pending_events # <<>>
    THEN [st |-> st, ret |-> RetEvent(Head(st.pending_events))]
    ELSE [st |-> st, ret |-> RetNone]

\* lines 422-425 and 476-479: return the oldest queued event and remove it
PopPending(st) ==
    IF st.pending_events # <<>>
    THEN [st |-> [st EXCEPT !.pending_events = Tail(@)],
          ret |-> RetEvent(Head(st.pending_events))]
    ELSE [st |-> st, ret |-> RetNone]

\* line 420
IsDoneSentinel(data) == data.kind = "text" /\ Trim(data.text) = <<"[DONE]">>

\* variant: the sentinel does not flush the accumulated tool calls
ParseDone_NoFlush(st) ==
    LET popped == PopPending(st)
    IN IF popped.ret.tag = "event" THEN popped
       ELSE [st |-> st, ret |-> RetEvent(Done(st.finish_reason))]

\* variant: the sentinel returns Done without looking at the queue
ParseDone_Eager(st) ==
    LET flushed == EmitToolCalls(st, TRUE)
    IN [st |-> flushed, ret |-> RetEvent(Done(flushed.finish_reason))]

\* lines 420-429
ParseDone(st) ==
    LET flushed == EmitToolCalls(st, TRUE)
        popped == PopPending(flushed)
    IN IF popped.ret.tag = "event" THEN popped
       ELSE [st |-> flushed, ret |-> RetEvent(Done(flushed.finish_reason))]

\* usage.get(name).and_then(as_i64): None unless usage is an object with the member
UsageField(usage, name) == IF usage.j = "object" THEN usage[name] ELSE None

\* lines 432-449: payload.usage is None only when the member is absent
ParseUsage(payload, st) ==
    IF IsSome(payload.usage)
    THEN LET usage == Unwrap(payload.usage)
             input_tokens == UsageField(usage, "prompt_tokens")
             output_tokens == UsageField(usage, "completion_tokens")
         IN Push(st, Usage(IF IsSome(input_tokens) THEN Unwrap(input_tokens) ELSE 0,
                           IF IsSome(output_tokens) THEN Unwrap(output_tokens) ELSE 0,
                           UsageField(usage, "total_tokens")))
    ELSE st

\* variant: text_started is not set when TextStart is queued
ParseDelta_NoFlag(delta, st) ==
    LET st1 == IF ~st.text_started THEN Push(st, TextStart) ELSE st
        st2 == IF IsSome(delta.content) THEN Push(st1, TextDelta(Unwrap(delta.content)))
               ELSE st1
    IN ParseToolDelta(delta, st2)

\* variant: TextStart is queued only by a delta that carries text content
ParseDelta_StartOnText(delta, st) ==
    LET st1 == IF ~st.text_started /\ IsSome(delta.content)
               THEN Push([st EXCEPT !.text_started = TRUE], TextStart)
               ELSE st
        st2 == IF IsSome(delta.content) THEN Push(st1, TextDelta(Unwrap(delta.content)))
               ELSE st1
    IN ParseToolDelta(delta, st2)

\* lines 456-469
ParseDelta(delta, st) ==
    LET st1 == IF ~st.text_started
               THEN Push([st EXCEPT !.text_started = TRUE], TextStart)
               ELSE st
        st2 == IF IsSome(delta.content) THEN Push(st1, TextDelta(Unwrap(delta.content)))
               ELSE st1
    IN ParseToolDelta(delta, st2)

\* variant: a finish_reason already stored is kept
ParseChoice_FirstWins(payload, st) ==
    IF payload.choices = <<>> THEN st
    ELSE LET choice == Head(payload.choices)
             st1 == IF IsSome(choice.finish_reason) /\ ~IsSome(st.finish_reason)
                    THEN [st EXCEPT !.finish_reason = choice.finish_reason]
                    ELSE st
         IN IF IsSome(choice.delta) THEN ParseDelta(Unwrap(choice.delta), st1) ELSE st1

\* lines 451-470
ParseChoice(payload, st) ==
    IF payload.choices = <<>> THEN st
    ELSE LET choice == Head(payload.choices)
             st1 == IF IsSome(choice.finish_reason)
                    THEN [st EXCEPT !.finish_reason = choice.finish_reason]
                    ELSE st
         IN IF IsSome(choice.delta) THEN ParseDelta(Unwrap(choice.delta), st1) ELSE st1

\* variant: the flush is decided by the finish_reason stored before the frame
ParsePayload_StaleFinish(payload, st) ==
    LET st1 == ParseChoice(payload, ParseUsage(payload, st))
    IN IF st.finish_reason = Some("tool_calls") THEN EmitToolCalls(st1, FALSE) ELSE st1

\* lines 431-474: everything a JSON frame does before an event is returned
ParsePayload(payload, st) ==
    LET st1 == ParseChoice(payload, ParseUsage(payload, st))
    IN IF st1.finish_reason = Some("tool_calls") THEN EmitToolCalls(st1, FALSE) ELSE st1

\* variant: an unparsable payload is handled as an empty JSON object
ParseStreamEvent_BadAsEmpty(data, st) ==
    IF IsDoneSentinel(data) THEN ParseDone(st)
    ELSE IF data.kind = "text" THEN PopPending(st)
    ELSE PopPending(ParsePayload(data.payload, st))

\* lines 414-482
ParseStreamEvent(data, st) ==
    IF IsDoneSentinel(data) THEN ParseDone(st)
    ELSE IF data.kind = "text" THEN [st |-> st, ret |-> RetErr]
    ELSE PopPending(ParsePayload(data.payload, st))

\* every stream starts with a fresh ProtocolStreamState of its own
StreamIds == {1, 2}
NoStreams ==
    [i \in StreamIds |-> [st |-> ProtocolStreamStateDefault, fed |-> <<>>, out |-> <<>>]]

(***************************************************************************)
(* Frames of the documented wire shape, drawn from small sets              *)
(***************************************************************************)
\* tool-call delta entries: the first delta of call_1 (index 0) with a partial
\* argument text, a continuation that carries only the index, and the first
\* delta of a second call (index 1) that has no arguments yet
EntryFirst == [index |-> 0, id |-> "call_1", name |-> "readFile", arguments |-> ArgStr(<<"{">>)]
EntryMore == [index |-> 0, id |-> "", name |-> "", arguments |-> ArgStr(<<"}">>)]
EntrySecond == [index |-> 1, id |-> "call_2", name |-> "listFiles", arguments |-> ArgAbsent]
ToolCallArrays ==
    {None, Some(<<EntryFirst>>), Some(<<EntryMore>>), Some(<<EntryFirst, EntrySecond>>)}
Contents == {None, Some("Hello")}
Deltas == [content : Contents, tool_calls : ToolCallArrays]
FinishReasons == {None, Some("stop"), Some("tool_calls")}
ChoiceValues == [finish_reason : FinishReasons, delta : {None} \cup {Some(d) : d \in Deltas}]
UsageValues ==
    {None, Some([j |-> "object", prompt_tokens |-> Some(1), completion_tokens |-> Some(2),
                 total_tokens |-> Some(3)])}
Payloads == [usage : UsageValues, choices : {<<>>} \cup {<<c>> : c \in ChoiceValues}]

JsonData(payload) == [kind |-> "json", payload |-> payload]
TextData(text) == [kind |-> "text", text |-> text]
DoneTexts == {<<"[DONE]">>, <<" ", "[DONE]", "\n">>}
BadTexts == {<<>>, <<"[DONE]", " ", "x">>}

\* every argument buffer stays within the modelled length
WithinBounds(st) ==
    \A k \in DOMAIN st.tool_calls : Len(st.tool_calls[k].arguments) <= MaxArgLen

\* events a call appends to the adapter's output: those it queues, and the
\* Done it returns directly when nothing is queued
Synthesized(data, st) ==
    IF IsDoneSentinel(data)
    THEN LET q == EmitToolCalls(st, TRUE).pending_events IN
         SubSeq(q, Len(st.pending_events) + 1, Len(q))
             \o (IF q = <<>> THEN <<Done(st.finish_reason)>> ELSE <<>>)
    ELSE IF data.kind = "text" THEN <<>>
    ELSE LET q == ParsePayload(data.payload, st).pending_events IN
         SubSeq(q, Len(st.pending_events) + 1, Len(q))

(***************************************************************************)
(* Actions                                                                 *)
(***************************************************************************)
NoCommand == [fn |-> "none"]

\* terminal.rs lines 26-28: the registry starts empty; no session, no reader
\* task, no event
PtyIdle ==
    /\ PTY_SESSIONS = {}
    /\ reader = EmptyMap
    /\ app_events = <<>>
    /\ pty_ret = NoCommand
    /\ killed = EmptyMap

Init ==
    /\ tool_call_index_map = ProtocolStreamStateDefault.tool_call_index_map
    /\ tool_calls = ProtocolStreamStateDefault.tool_calls
    /\ tool_call_order = ProtocolStreamStateDefault.tool_call_order
    /\ emitted_tool_calls = ProtocolStreamStateDefault.emitted_tool_calls
    /\ pending_events = ProtocolStreamStateDefault.pending_events
    /\ text_started = ProtocolStreamStateDefault.text_started
    /\ finish_reason = ProtocolStreamStateDefault.finish_reason
    /\ calls = 0
    /\ lastKind = "none"
    /\ ret = NoCall
    /\ delivered = <<>>
    /\ synth = <<>>
    /\ phase = "feed"
    /\ whole = <<>>
    /\ frame = NoFrame
    /\ args = NoArgs
    /\ result = NoResult
    /\ streams = NoStreams
    /\ PtyIdle

\* one call parse_stream_event(_, data, &mut state) by the caller
Call(data, kind) ==
    \E r \in {ParseStreamEvent(data, CurrentState)} :
        /\ WithinBounds(r.st)
        /\ tool_call_index_map' = r.st.tool_call_index_map
        /\ tool_calls' = r.st.tool_calls
        /\ tool_call_order' = r.st.tool_call_order
        /\ emitted_tool_calls' = r.st.emitted_tool_calls
        /\ pending_events' = r.st.pending_events
        /\ text_started' = r.st.text_started
        /\ finish_reason' = r.st.finish_reason
        /\ ret' = r.ret
        /\ lastKind' = kind
        /\ calls' = calls + 1
        /\ synth' = synth \o Synthesized(data, CurrentState)
        /\ delivered' = IF r.ret.tag = "event" THEN Append(delivered, r.ret.ev) ELSE delivered

FeedDone ==
    /\ phase = "feed"
    /\ calls < MaxCalls
    /\ \E t \in DoneTexts : Call(TextData(t), "done")
    /\ UNCHANGED <<phase, whole, frame, sideVars>>

FeedBad ==
    /\ phase = "feed"
    /\ calls < MaxCalls
    /\ \E t \in BadTexts : Call(TextData(t), "bad")
    /\ UNCHANGED <<phase, whole, frame, sideVars>>

FeedJson ==
    /\ phase = "feed"
    /\ calls < MaxCalls
    /\ \E p \in Payloads : Call(JsonData(p), "json")
    /\ UNCHANGED <<phase, whole, frame, sideVars>>

\* the caller takes the queued events itself, oldest first, until the queue is
\* empty (the while loop of collect_events in tests.rs)
DrainPending ==
    /\ phase = "feed"
    /\ pending_events # <<>>
    /\ delivered' = delivered \o pending_events
    /\ pending_events' = <<>>
    /\ UNCHANGED <<tool_call_index_map, tool_calls, tool_call_order, emitted_tool_calls,
                   text_started, finish_reason, calls, lastKind, ret, synth, phase, whole,
                   frame, sideVars>>

\* the caller stops feeding frames and from now on only sends the sentinel
BeginDrain ==
    /\ phase = "feed"
    /\ phase' = "drain"
    /\ UNCHANGED <<stateVars, calls, lastKind, ret, delivered, synth, whole, frame, sideVars>>

GotDone == ret.tag = "event" /\ ret.ev.type = "Done"

DrainCall ==
    /\ phase = "drain"
    /\ ~(lastKind = "done" /\ GotDone)
    /\ Call(TextData(<<"[DONE]">>), "done")
    /\ UNCHANGED <<phase, whole, frame, sideVars>>

Next == FeedDone \/ FeedBad \/ FeedJson \/ DrainPending

Spec == Init /\ [][Next]_vars

\* a caller that feeds a few frames (text and tool-call deltas, finish reasons)
\* and then keeps sending the sentinel until it receives Done
DrainPayloads == {p \in Payloads : p.usage = None}

DrainFeed ==
    /\ phase = "feed"
    /\ calls < MaxDrainFeed
    /\ \/ \E p \in DrainPayloads : Call(JsonData(p), "json")
       \/ \E t \in DoneTexts : Call(TextData(t), "done")
    /\ UNCHANGED <<phase, whole, frame, sideVars>>

DrainNext == DrainFeed \/ BeginDrain \/ DrainCall

DrainSpec == Init /\ [][DrainNext]_vars /\ WF_vars(DrainCall)

(***************************************************************************)
(* One tool call whose argument text arrives in fragments                  *)
(***************************************************************************)
Fragments == {<<>>, <<"{">>, <<"}">>, <<" ">>, <<"1">>, <<"{", "}">>}

FragmentEntry(f, withId, first) ==
    [index |-> 0,
     id |-> IF first \/ withId THEN "call_1" ELSE "",
     name |-> IF first THEN "readFile" ELSE "",
     arguments |-> ArgStr(f)]

DeltaFrame(entries) ==
    JsonData([usage |-> None,
              choices |-> <<[finish_reason |-> None,
                             delta |-> Some([content |-> None,
                                             tool_calls |-> Some(entries)])]>>])

FinishFrame ==
    JsonData([usage |-> None,
              choices |-> <<[finish_reason |-> Some("tool_calls"),
                             delta |-> Some([content |-> None, tool_calls |-> None])]>>])

\* the next fragment of the arguments of call_1, with or without the id repeated
SplitFragment ==
    /\ phase = "feed"
    /\ calls < MaxCalls
    /\ \E f \in Fragments, withId \in BOOLEAN :
          /\ Len(whole) + Len(f) <= MaxArgLen
          /\ Call(DeltaFrame(<<FragmentEntry(f, withId, calls = 0)>>), "json")
          /\ whole' = whole \o f
    /\ UNCHANGED <<phase, frame, sideVars>>

\* the vendor ends the tool call with finish_reason "tool_calls"
SplitFinish ==
    /\ phase = "feed"
    /\ calls > 0
    /\ Call(FinishFrame, "json")
    /\ phase' = "drain"
    /\ UNCHANGED <<whole, frame, sideVars>>

SplitBeginDrain == calls > 0 /\ BeginDrain

SplitNext == SplitFragment \/ SplitFinish \/ SplitBeginDrain \/ DrainCall

SplitSpec == Init /\ [][SplitNext]_vars

\* the events a caller collects from a list of frames fed to a state: the
\* event returned by each call, then what is left in the queue
RECURSIVE Replay(_, _)
Replay(frames, st) ==
    IF frames = <<>> THEN st.pending_events
    ELSE LET r == ParseStreamEvent(Head(frames), st) IN
         (IF r.ret.tag = "event" THEN <<r.ret.ev>> ELSE <<>>) \o Replay(Tail(frames), r.st)

\* the ToolCall events produced when the text w is sent in a single delta
OneDeltaToolCalls(w) ==
    SelectSeq(Replay(<<DeltaFrame(<<FragmentEntry(w, TRUE, TRUE)>>), FinishFrame,
                       TextData(<<"[DONE]">>)>>,
                     ProtocolStreamStateDefault),
              LAMBDA e : e.type = "ToolCall")

(***************************************************************************)
(* Tool-call deltas with every combination of index and id                 *)
(***************************************************************************)
KeyIndexes == {NoIndex, 0, 1}
KeyIds == {"", "call_1", "call_2"}
\* function.name and function.arguments of an entry: a name alone, a name with
\* a string fragment, a name with a non-string JSON value, a fragment alone
KeyFunctions ==
    {[name |-> "readFile", arguments |-> ArgAbsent],
     [name |-> "readFile", arguments |-> ArgStr(<<"{">>)],
     [name |-> "listFiles", arguments |-> ArgJson(JObject)],
     [name |-> "", arguments |-> ArgStr(<<"{">>)]}
KeyEntries ==
    {[index |-> i, id |-> d, name |-> f.name, arguments |-> f.arguments] :
        i \in KeyIndexes, d \in KeyIds, f \in KeyFunctions}

\* a frame whose delta carries one tool-call entry and no finish_reason
ToolDelta ==
    /\ phase = "feed"
    /\ calls < MaxToolFrames
    /\ \E e \in KeyEntries :
          /\ Call(DeltaFrame(<<e>>), "delta")
          /\ frame' = DeltaFrame(<<e>>)
    /\ UNCHANGED <<phase, whole, sideVars>>

\* a frame that carries finish_reason "tool_calls" and an empty delta
ToolFinish ==
    /\ phase = "feed"
    /\ calls < MaxToolFrames
    /\ Call(FinishFrame, "finish")
    /\ frame' = FinishFrame
    /\ UNCHANGED <<phase, whole, sideVars>>

ToolDone ==
    /\ phase = "feed"
    /\ calls < MaxToolFrames
    /\ Call(TextData(<<"[DONE]">>), "done")
    /\ frame' = TextData(<<"[DONE]">>)
    /\ UNCHANGED <<phase, whole, sideVars>>

ToolNext == ToolDelta \/ ToolFinish \/ ToolDone

ToolSpec == Init /\ [][ToolNext]_vars

(***************************************************************************)
(* Deltas of one tool call: one index and at most one id                   *)
(***************************************************************************)
\* entries at index 0 that carry the id call_1 or no id
OneCallEntries ==
    {[index |-> 0, id |-> d, name |-> f.name, arguments |-> f.arguments] :
        d \in {"", "call_1"}, f \in KeyFunctions}

OneCallDelta ==
    /\ phase = "feed"
    /\ calls < MaxToolFrames
    /\ \E e \in OneCallEntries :
          /\ Call(DeltaFrame(<<e>>), "delta")
          /\ frame' = DeltaFrame(<<e>>)
    /\ UNCHANGED <<phase, whole, sideVars>>

OneCallNext == OneCallDelta \/ ToolFinish \/ ToolDone

OneCallSpec == Init /\ [][OneCallNext]_vars

(***************************************************************************)
(* Frames with every shape of usage and finish_reason                      *)
(***************************************************************************)
\* the usage member: absent, null, or an object with the three counters
FrameUsages == UsageValues \cup {Some(JNull)}
FrameDeltas ==
    {None,
     Some([content |-> Some("Hello"), tool_calls |-> None]),
     Some([content |-> None, tool_calls |-> Some(<<EntryFirst>>)])}
FrameChoices == [finish_reason : FinishReasons, delta : FrameDeltas]
FramePayloads == [usage : FrameUsages, choices : {<<>>} \cup {<<c>> : c \in FrameChoices}]

FrameJson ==
    /\ phase = "feed"
    /\ calls < MaxFrames
    /\ \E p \in FramePayloads :
          /\ Call(JsonData(p), "json")
          /\ frame' = JsonData(p)
    /\ UNCHANGED <<phase, whole, sideVars>>

FrameDone ==
    /\ phase = "feed"
    /\ calls < MaxFrames
    /\ Call(TextData(<<"[DONE]">>), "done")
    /\ frame' = TextData(<<"[DONE]">>)
    /\ UNCHANGED <<phase, whole, sideVars>>

FrameNext == FrameJson \/ FrameDone

FrameSpec == Init /\ [][FrameNext]_vars

(***************************************************************************)
(* build_request                                                           *)
(***************************************************************************)
\* serde_json values of the request body: objects are functions from member
\* names to values, arrays are sequences
JBool(b) == [j |-> "bool", b |-> b]
JArray(items) == [j |-> "array", items |-> items]
JMap(fields) == [j |-> "object", fields |-> fields]

\* Value::get(name): None unless the value is an object with that member
JGet(v, name) ==
    IF v.j = "object" /\ name \in DOMAIN v.fields THEN Some(v.fields[name]) ELSE None

\* body[name] = value on an object
JInsert(fields, name, value) == (name :> value) @@ fields

\* MessageContent and ContentPart; the texts the code trims, joins or formats
\* are sequences of tokens.  The String of a system message is held as
\* MText and the Vec<ContentPart> of a tool message as MParts, so that the
\* content of every message is a record of one of these two shapes.
MText(text) == [kind |-> "text", text |-> text]
MParts(parts) == [kind |-> "parts", parts |-> parts]
PartText(text) == [part |-> "text", text |-> text]
PartReasoning(text) == [part |-> "reasoning", text |-> text]
PartImage(image) == [part |-> "image", image |-> image]
PartToolCall(tool_call_id, tool_name, input) ==
    [part |-> "tool_call", tool_call_id |-> tool_call_id, tool_name |-> tool_name,
     input |-> input]
PartToolResult(tool_call_id, tool_name, output) ==
    [part |-> "tool_result", tool_call_id |-> tool_call_id, tool_name |-> tool_name,
     output |-> output]

\* concatenation of a sequence of sequences, in order
RECURSIVE Flatten(_)
Flatten(qs) == IF qs = <<>> THEN <<>> ELSE Head(qs) \o Flatten(Tail(qs))

\* Value::to_string (compact JSON text) of null, booleans, strings without
\* characters to escape, and objects with at most one member
RECURSIVE JsonText(_)
JsonText(v) ==
    CASE v.j = "null" -> <<"null">>
      [] v.j = "bool" -> IF v.b THEN <<"true">> ELSE <<"false">>
      [] v.j = "string" -> <<"\"">> \o v.s \o <<"\"">>
      [] v.j = "object" ->
            IF DOMAIN v.fields = {} THEN <<"{", "}">>
            ELSE LET k == CHOOSE x \in DOMAIN v.fields : TRUE
                 IN <<"{", "\"", k, "\"", ":">> \o JsonText(v.fields[k]) \o <<"}">>

\* format!("data:image/png;base64,{}", image)
DataUrl(image) == <<"data:image/png;base64,">> \o image

TextEntry(text) == JMap(("type" :> JString("text")) @@ ("text" :> JString(text)))
ImageEntry(image) ==
    JMap(("type" :> JString("image_url")) @@
         ("image_url" :> JMap("url" :> JString(DataUrl(image)))))

\* lines 60-91: the entries one part contributes to a user message
ConvertPart(p) ==
    CASE p.part = "text" -> <<TextEntry(p.text)>>
      [] p.part = "image" -> <<ImageEntry(p.image)>>
      [] p.part = "tool_call" ->
            <<JMap(("type" :> JString("tool_call")) @@
                   ("id" :> JString(p.tool_call_id)) @@
                   ("function" :> JMap(("name" :> JString(p.tool_name)) @@
                                       ("arguments" :> JString(JsonText(p.input))))))>>
      [] p.part = "tool_result" -> <<>>
      [] p.part = "reasoning" -> IF Trim(p.text) # <<>> THEN <<TextEntry(p.text)>> ELSE <<>>

\* lines 55-96
ConvertContent(content) ==
    IF content.kind = "text" THEN JString(content.text)
    ELSE JArray(Flatten([i \in 1..Len(content.parts) |-> ConvertPart(content.parts[i])]))

\* lines 116-140: what one part adds to text_chunks
TextChunk(p) ==
    IF p.part \in {"text", "reasoning"} /\ Trim(p.text) # <<>> THEN <<p.text>> ELSE <<>>

\* lines 116-140: what one part adds to rich_parts
RichPart(p) ==
    CASE p.part \in {"text", "reasoning"} ->
            IF Trim(p.text) # <<>> THEN <<TextEntry(p.text)>> ELSE <<>>
      [] p.part = "image" -> <<ImageEntry(p.image)>>
      [] OTHER -> <<>>

\* variant: the array of rich parts is used whenever it is not empty
AssistantContent_AlwaysRich(content) ==
    IF content.kind = "text"
    THEN IF Trim(content.text) # <<>> THEN JString(content.text) ELSE JNull
    ELSE LET rich_parts == Flatten([i \in 1..Len(content.parts) |-> RichPart(content.parts[i])])
         IN IF rich_parts # <<>> THEN JArray(rich_parts) ELSE JNull

\* lines 103-148: content_value
AssistantContent(content) ==
    IF content.kind = "text"
    THEN IF Trim(content.text) # <<>> THEN JString(content.text) ELSE JNull
    ELSE LET parts == content.parts
             text_chunks == Flatten([i \in 1..Len(parts) |-> TextChunk(parts[i])])
             rich_parts == Flatten([i \in 1..Len(parts) |-> RichPart(parts[i])])
             has_image == \E i \in 1..Len(parts) : parts[i].part = "image"
         IN IF has_image THEN JArray(rich_parts)
            ELSE IF text_chunks # <<>> THEN JString(Flatten(text_chunks))
            ELSE JNull

\* variant: a tool call is skipped only when its name is the empty string
AssistantToolCall_EmptyOnly(p) ==
    IF p.part = "tool_call" /\ p.tool_name # <<>>
    THEN <<JMap(("id" :> JString(p.tool_call_id)) @@
                ("type" :> JString("function")) @@
                ("function" :> JMap(("name" :> JString(p.tool_name)) @@
                                    ("arguments" :> JString(JsonText(p.input))))))>>
    ELSE <<>>

\* lines 158-188: what one part adds to tool_calls (every serde_json value
\* is one of the six kinds tested on lines 168-173)
AssistantToolCall(p) ==
    IF p.part = "tool_call" /\ Trim(p.tool_name) # <<>>
    THEN <<JMap(("id" :> JString(p.tool_call_id)) @@
                ("type" :> JString("function")) @@
                ("function" :> JMap(("name" :> JString(p.tool_name)) @@
                                    ("arguments" :> JString(JsonText(p.input))))))>>
    ELSE <<>>

\* lines 155-194
AssistantToolCalls(content) ==
    IF content.kind = "parts"
    THEN Flatten([i \in 1..Len(content.parts) |-> AssistantToolCall(content.parts[i])])
    ELSE <<>>

\* variant: an empty reasoning_content is left out
ReasoningContent_NonEmpty(provider_options) ==
    IF ~IsSome(provider_options) THEN None
    ELSE LET openai_compat == JGet(Unwrap(provider_options), "openaiCompatible")
             found == IF IsSome(openai_compat)
                      THEN JGet(Unwrap(openai_compat), "reasoning_content") ELSE None
         IN IF found = Some(JString(<<>>)) THEN None ELSE found

\* lines 196-202
ReasoningContent(provider_options) ==
    IF ~IsSome(provider_options) THEN None
    ELSE LET openai_compat == JGet(Unwrap(provider_options), "openaiCompatible")
         IN IF IsSome(openai_compat)
            THEN JGet(Unwrap(openai_compat), "reasoning_content") ELSE None

\* lines 98-205
BuildAssistantMessage(content, provider_options) ==
    LET message == ("role" :> JString("assistant")) @@
                   ("content" :> AssistantContent(content))
        calls_array == AssistantToolCalls(content)
        m1 == IF calls_array # <<>>
              THEN JInsert(message, "tool_calls", JArray(calls_array)) ELSE message
        reasoning_content == ReasoningContent(provider_options)
    IN JMap(IF IsSome(reasoning_content)
            THEN JInsert(m1, "reasoning_content", Unwrap(reasoning_content)) ELSE m1)

\* lines 207-212
ToolOutputToString(output) ==
    LET value == JGet(output, "value")
    IN IF IsSome(value) /\ Unwrap(value).j = "string" THEN Unwrap(value).s
       ELSE JsonText(output)

\* lines 32-44: one wire message per ToolResult part
ToolResultMessage(p) ==
    IF p.part = "tool_result"
    THEN <<JMap(("tool_call_id" :> JString(p.tool_call_id)) @@
                ("role" :> JString("tool")) @@
                ("content" :> JString(ToolOutputToString(p.output))))>>
    ELSE <<>>

\* variant: a tool message yields one wire message, for its first result
BuildMessage_FirstResult(msg) ==
    CASE msg.role = "system" ->
            <<JMap(("role" :> JString("system")) @@ ("content" :> JString(msg.content.text)))>>
      [] msg.role = "user" ->
            <<JMap(("role" :> JString("user")) @@ ("content" :> ConvertContent(msg.content)))>>
      [] msg.role = "assistant" ->
            <<BuildAssistantMessage(msg.content, msg.provider_options)>>
      [] msg.role = "tool" ->
            LET all == Flatten([i \in 1..Len(msg.content.parts) |->
                        ToolResultMessage(msg.content.parts[i])])
            IN IF all = <<>> THEN <<>> ELSE <<Head(all)>>

\* lines 12-49: the wire messages one message contributes
BuildMessage(msg) ==
    CASE msg.role = "system" ->
            <<JMap(("role" :> JString("system")) @@ ("content" :> JString(msg.content.text)))>>
      [] msg.role = "user" ->
            <<JMap(("role" :> JString("user")) @@ ("content" :> ConvertContent(msg.content)))>>
      [] msg.role = "assistant" ->
            <<BuildAssistantMessage(msg.content, msg.provider_options)>>
      [] msg.role = "tool" ->
            Flatten([i \in 1..Len(msg.content.parts) |->
                        ToolResultMessage(msg.content.parts[i])])

\* lines 9-53
BuildMessages(messages) == Flatten([i \in 1..Len(messages) |-> BuildMessage(messages[i])])

\* variant: an empty list of tools yields no tools array
BuildTools_EmptyIsNone(tools) ==
    IF ~IsSome(tools) \/ Unwrap(tools) = <<>> THEN None
    ELSE Some([i \in 1..Len(Unwrap(tools)) |->
                 JMap(("type" :> JString("function")) @@
                      ("function" :>
                          JMap(("name" :> JString(Unwrap(tools)[i].name)) @@
                               ("description" :> JString(Unwrap(tools)[i].description)) @@
                               ("parameters" :> Unwrap(tools)[i].parameters))))])

\* lines 214-228
BuildTools(tools) ==
    IF ~IsSome(tools) THEN None
    ELSE Some([i \in 1..Len(Unwrap(tools)) |->
                 JMap(("type" :> JString("function")) @@
                      ("function" :>
                          JMap(("name" :> JString(Unwrap(tools)[i].name)) @@
                               ("description" :> JString(Unwrap(tools)[i].description)) @@
                               ("parameters" :> Unwrap(tools)[i].parameters))))])

\* body[name] = json!(value) when the optional parameter is given (the
\* f32 parameters of the model are values that f64 represents exactly)
InsertSome(fields, name, opt) ==
    IF IsSome(opt) THEN JInsert(fields, name, JNumber(Unwrap(opt))) ELSE fields

\* lines 387-398
ApplyProviderOptions(fields, provider_options) ==
    IF ~IsSome(provider_options) THEN fields
    ELSE LET options == Unwrap(provider_options)
             openai_opts == JGet(options, "openai")
             reasoning == IF IsSome(openai_opts)
                          THEN JGet(Unwrap(openai_opts), "reasoningEffort") ELSE None
             openrouter_opts == JGet(options, "openrouter")
             effort == IF IsSome(openrouter_opts)
                       THEN JGet(Unwrap(openrouter_opts), "effort") ELSE None
             f1 == IF IsSome(reasoning)
                   THEN JInsert(fields, "reasoning_effort", Unwrap(reasoning)) ELSE fields
         IN IF IsSome(effort)
            THEN JInsert(f1, "reasoning", JMap("effort" :> Unwrap(effort))) ELSE f1

\* variant: a member of extra_body does not replace a computed member
MergeExtraBody_KeepComputed(fields, extra_body) ==
    IF IsSome(extra_body) /\ Unwrap(extra_body).j = "object"
    THEN fields @@ Unwrap(extra_body).fields
    ELSE fields

\* lines 401-409
MergeExtraBody(fields, extra_body) ==
    IF IsSome(extra_body) /\ Unwrap(extra_body).j = "object"
    THEN Unwrap(extra_body).fields @@ fields
    ELSE fields

\* lines 353-412
BuildRequest(a) ==
    LET body == ("model" :> JString(a.model)) @@
                ("messages" :> JArray(BuildMessages(a.messages))) @@
                ("stream" :> JBool(TRUE)) @@
                ("stream_options" :> JMap("include_usage" :> JBool(TRUE)))
        tools == BuildTools(a.tools)
        b1 == IF IsSome(tools) THEN JInsert(body, "tools", JArray(Unwrap(tools))) ELSE body
        b2 == InsertSome(b1, "temperature", a.temperature)
        b3 == InsertSome(b2, "max_tokens", a.max_tokens)
        b4 == InsertSome(b3, "top_p", a.top_p)
        b5 == InsertSome(b4, "top_k", a.top_k)
        b6 == ApplyProviderOptions(b5, a.provider_options)
    IN [tag |-> "ok", body |-> JMap(MergeExtraBody(b6, a.extra_body))]

\* arguments of build_request, drawn from small sets
RECURSIVE SeqsUpTo(_, _)
SeqsUpTo(S, n) ==
    IF n = 0 THEN {<<>>}
    ELSE SeqsUpTo(S, n - 1) \cup {Append(q, x) : q \in SeqsUpTo(S, n - 1), x \in S}

ToolDefinitions ==
    {[name |-> "readFile", description |-> "Read a file", parameters |-> JMap(EmptyMap)],
     [name |-> "listFiles", description |-> "", parameters |-> JNull]}
ToolLists == {None} \cup {Some(q) : q \in SeqsUpTo(ToolDefinitions, MaxTools)}
MessageLists ==
    {<<>>,
     <<[role |-> "system", content |-> MText(<<"be brief">>)],
       [role |-> "user", content |-> MText(<<"hi">>)]>>}
ProviderOptions ==
    {None,
     Some(JNull),
     Some(JMap("openai" :> JMap("reasoningEffort" :> JString("medium")))),
     Some(JMap(("openai" :> JMap("reasoningEffort" :> JString("medium"))) @@
               ("openrouter" :> JMap("effort" :> JString("low")))))}
ExtraBodies ==
    {None,
     Some(JNull),
     Some(JString("extra")),
     Some(JMap(EmptyMap)),
     Some(JMap("extra_param" :> JBool(TRUE))),
     Some(JMap(("model" :> JString("other")) @@ ("max_tokens" :> JNumber(9)))),
     Some(JMap(("stream" :> JBool(FALSE)) @@ ("reasoning_effort" :> JString("high")) @@
               ("messages" :> JArray(<<>>))))}
RequestArgs ==
    [fn : {"build_request"},
     model : {"gpt-4o"},
     messages : MessageLists,
     tools : ToolLists,
     temperature : {None, Some(1)},
     max_tokens : {None, Some(120)},
     top_p : {None, Some(1)},
     top_k : {None, Some(40)},
     provider_options : ProviderOptions,
     extra_body : ExtraBodies]

\* the caller has its arguments ready and has not called build_request yet
BuildInit ==
    /\ tool_call_index_map = ProtocolStreamStateDefault.tool_call_index_map
    /\ tool_calls = ProtocolStreamStateDefault.tool_calls
    /\ tool_call_order = ProtocolStreamStateDefault.tool_call_order
    /\ emitted_tool_calls = ProtocolStreamStateDefault.emitted_tool_calls
    /\ pending_events = ProtocolStreamStateDefault.pending_events
    /\ text_started = ProtocolStreamStateDefault.text_started
    /\ finish_reason = ProtocolStreamStateDefault.finish_reason
    /\ calls = 0
    /\ lastKind = "none"
    /\ ret = NoCall
    /\ delivered = <<>>
    /\ synth = <<>>
    /\ phase = "feed"
    /\ whole = <<>>
    /\ frame = NoFrame
    /\ args \in RequestArgs
    /\ result = NoResult
    /\ streams = NoStreams
    /\ PtyIdle

BuildRequestCall ==
    /\ result = NoResult
    /\ result' = BuildRequest(args)
    /\ UNCHANGED <<stateVars, calls, lastKind, ret, delivered, synth, phase, whole, frame, args,
                   streams, ptyVars>>

BuildNext == BuildRequestCall

BuildSpec == BuildInit /\ [][BuildNext]_vars

(***************************************************************************)
(* build_headers                                                           *)
(***************************************************************************)
\* format!("Bearer {}", token)
Bearer(token) == <<"Bearer ", token>>

\* Option::or
OptionOr(a, b) == IF IsSome(a) THEN a ELSE b

\* variant: the API key is preferred to the OAuth token
BuildHeaders_ApiKeyFirst(a) ==
    LET h0 == "Content-Type" :> <<"application/json">>
        token == OptionOr(a.api_key, a.oauth_token)
        h1 == IF IsSome(token) THEN ("Authorization" :> Bearer(Unwrap(token))) @@ h0 ELSE h0
    IN [tag |-> "headers",
        headers |-> IF IsSome(a.extra_headers) THEN Unwrap(a.extra_headers) @@ h1 ELSE h1]

\* lines 484-501
BuildHeaders(a) ==
    LET h0 == "Content-Type" :> <<"application/json">>
        token == OptionOr(a.oauth_token, a.api_key)
        h1 == IF IsSome(token) THEN ("Authorization" :> Bearer(Unwrap(token))) @@ h0 ELSE h0
    IN [tag |-> "headers",
        headers |-> IF IsSome(a.extra_headers) THEN Unwrap(a.extra_headers) @@ h1 ELSE h1]

\* arguments of build_headers, drawn from small sets
ExtraHeaders ==
    {None,
     Some(EmptyMap),
     Some("X-Test" :> <<"1">>),
     Some("Authorization" :> <<"Basic ", "abc">>),
     Some("authorization" :> <<"lower">>),
     Some("Content-Type" :> <<"text/plain">>),
     Some(("Authorization" :> <<"Basic ", "abc">>) @@ ("X-Test" :> <<"1">>))}
HeaderArgs ==
    [fn : {"build_headers"},
     api_key : {None, Some("api"), Some("")},
     oauth_token : {None, Some("oauth"), Some("")},
     extra_headers : ExtraHeaders]

\* no frame has been fed: the caller's record of the stream is empty
StreamIdle ==
    /\ calls = 0
    /\ lastKind = "none"
    /\ ret = NoCall
    /\ delivered = <<>>
    /\ synth = <<>>
    /\ phase = "feed"
    /\ whole = <<>>
    /\ frame = NoFrame

HeaderInit ==
    /\ tool_call_index_map = ProtocolStreamStateDefault.tool_call_index_map
    /\ tool_calls = ProtocolStreamStateDefault.tool_calls
    /\ tool_call_order = ProtocolStreamStateDefault.tool_call_order
    /\ emitted_tool_calls = ProtocolStreamStateDefault.emitted_tool_calls
    /\ pending_events = ProtocolStreamStateDefault.pending_events
    /\ text_started = ProtocolStreamStateDefault.text_started
    /\ finish_reason = ProtocolStreamStateDefault.finish_reason
    /\ StreamIdle
    /\ args \in HeaderArgs
    /\ result = NoResult
    /\ streams = NoStreams
    /\ PtyIdle

BuildHeadersCall ==
    /\ result = NoResult
    /\ result' = BuildHeaders(args)
    /\ UNCHANGED <<stateVars, calls, lastKind, ret, delivered, synth, phase, whole, frame, args,
                   streams, ptyVars>>

HeaderNext == BuildHeadersCall

HeaderSpec == HeaderInit /\ [][HeaderNext]_vars

(***************************************************************************)
(* Two streams, each with its own ProtocolStreamState, fed in any order    *)
(***************************************************************************)
IsoFrames ==
    {DeltaFrame(<<EntryFirst>>),
     DeltaFrame(<<EntryMore>>),
     JsonData([usage |-> Some(JNull),
               choices |-> <<[finish_reason |-> Some("stop"),
                              delta |-> Some([content |-> Some("Hello"),
                                              tool_calls |-> None])]>>]),
     FinishFrame,
     TextData(<<"[DONE]">>),
     TextData(<<>>)}

\* variant: text_started is one flag shared by all streams
FeedStream_SharedFlag(ss, id, data) ==
    LET r == ParseStreamEvent(data, [ss[id].st EXCEPT
                                        !.text_started =
                                            \E i \in StreamIds : ss[i].st.text_started])
    IN [ss EXCEPT ![id] = [st |-> r.st, fed |-> Append(@.fed, data),
                           out |-> Append(@.out, r.ret)]]

\* parse_stream_event(_, data, &mut state) on the state of stream id
FeedStream(ss, id, data) ==
    LET r == ParseStreamEvent(data, ss[id].st)
    IN [ss EXCEPT ![id] = [st |-> r.st, fed |-> Append(@.fed, data),
                           out |-> Append(@.out, r.ret)]]

IsoFeed ==
    /\ \E id \in StreamIds, data \in IsoFrames :
          /\ Len(streams[id].fed) < MaxIsoFrames
          /\ streams' = FeedStream(streams, id, data)
    /\ UNCHANGED <<stateVars, calls, lastKind, ret, delivered, synth, phase, whole, frame,
                   builderVars, ptyVars>>

IsoNext == IsoFeed

IsoSpec == Init /\ [][IsoNext]_vars

\* a stream run alone: the frames fed one after the other to a state, with the
\* result of every call
RECURSIVE RunAlone(_, _, _)
RunAlone(frames, st, out) ==
    IF frames = <<>> THEN [st |-> st, out |-> out]
    ELSE LET r == ParseStreamEvent(Head(frames), st) IN
         RunAlone(Tail(frames), r.st, Append(out, r.ret))

(***************************************************************************)
(* StreamCollector::collect_text                                           *)
(***************************************************************************)
\* what one wait on the stream yields: Ok(event), Err(e), or no item within
\* the timeout; the end of the stream is the end of the list of items
ErrorEvent(message) == [type |-> "Error", message |-> message]
ItemOk(ev) == [k |-> "ok", ev |-> ev]
ItemErr(e) == [k |-> "err", e |-> e]
ItemTimeout == [k |-> "timeout"]

Collecting(full_text, delta_count, first_delta, consumed) ==
    [tag |-> "running", full_text |-> full_text, delta_count |-> delta_count,
     first_delta |-> first_delta, consumed |-> consumed]

\* lines 54-61: Ok(CollectResult)
CollectOk(c, consumed) ==
    [tag |-> "ok", text |-> Trim(c.full_text), delta_count |-> c.delta_count,
     first_delta |-> c.first_delta, consumed |-> consumed]

CollectErr(message, consumed) == [tag |-> "err", message |-> message, consumed |-> consumed]

\* variant: every event is counted as a delta
CollectItem_CountAll(c, item) ==
    LET n == c.consumed + 1 IN
    IF item.k = "timeout" THEN CollectErr(<<"Stream timeout after ", "timeout">>, c.consumed)
    ELSE IF item.k = "err" THEN CollectErr(<<item.e>>, n)
    ELSE IF item.ev.type = "TextDelta"
         THEN Collecting(c.full_text \o item.ev.text, c.delta_count + 1, TRUE, n)
    ELSE IF item.ev.type = "Done" THEN CollectOk(c, n)
    ELSE IF item.ev.type = "Error"
         THEN CollectErr(<<"Stream error: ", item.ev.message>>, n)
    ELSE Collecting(c.full_text, c.delta_count + 1, c.first_delta, n)

\* variant: an Error event ends the loop like Done
CollectItem_ErrorBreaks(c, item) ==
    LET n == c.consumed + 1 IN
    IF item.k = "timeout" THEN CollectErr(<<"Stream timeout after ", "timeout">>, c.consumed)
    ELSE IF item.k = "err" THEN CollectErr(<<item.e>>, n)
    ELSE IF item.ev.type = "TextDelta"
         THEN Collecting(c.full_text \o item.ev.text, c.delta_count + 1, TRUE, n)
    ELSE IF item.ev.type = "Done" THEN CollectOk(c, n)
    ELSE IF item.ev.type = "Error" THEN CollectOk(c, n)
    ELSE Collecting(c.full_text, c.delta_count, c.first_delta, n)

\* variant: Done is ignored like the other events
CollectItem_DoneIgnored(c, item) ==
    LET n == c.consumed + 1 IN
    IF item.k = "timeout" THEN CollectErr(<<"Stream timeout after ", "timeout">>, c.consumed)
    ELSE IF item.k = "err" THEN CollectErr(<<item.e>>, n)
    ELSE IF item.ev.type = "TextDelta"
         THEN Collecting(c.full_text \o item.ev.text, c.delta_count + 1, TRUE, n)
    ELSE IF item.ev.type = "Error"
         THEN CollectErr(<<"Stream error: ", item.ev.message>>, n)
    ELSE Collecting(c.full_text, c.delta_count, c.first_delta, n)

\* lines 29-51: one turn of the loop that got an item or timed out waiting
CollectItem(c, item) ==
    LET n == c.consumed + 1 IN
    IF item.k = "timeout" THEN CollectErr(<<"Stream timeout after ", "timeout">>, c.consumed)
    ELSE IF item.k = "err" THEN CollectErr(<<item.e>>, n)
    ELSE IF item.ev.type = "TextDelta"
         THEN Collecting(c.full_text \o item.ev.text, c.delta_count + 1, TRUE, n)
    ELSE IF item.ev.type = "Done" THEN CollectOk(c, n)
    ELSE IF item.ev.type = "Error"
         THEN CollectErr(<<"Stream error: ", item.ev.message>>, n)
    ELSE Collecting(c.full_text, c.delta_count, c.first_delta, n)

\* the items a stream can deliver, drawn from small sets
CollectItems ==
    {ItemOk(TextDelta(<<" ", "a">>)),
     ItemOk(TextDelta(<<"b", " ">>)),
     ItemOk(TextDelta(<<>>)),
     ItemOk(TextStart),
     ItemOk(ToolCall("call_1", "readFile", JObject)),
     ItemOk(Done(Some("stop"))),
     ItemOk(ErrorEvent("boom")),
     ItemErr("connection failed"),
     ItemTimeout}
CollectArgs == [fn : {"collect_text"}, items : SeqsUpTo(CollectItems, MaxItems)]

\* lines 19-26: collect_text has been called on a stream and has read nothing
CollectInit ==
    /\ tool_call_index_map = ProtocolStreamStateDefault.tool_call_index_map
    /\ tool_calls = ProtocolStreamStateDefault.tool_calls
    /\ tool_call_order = ProtocolStreamStateDefault.tool_call_order
    /\ emitted_tool_calls = ProtocolStreamStateDefault.emitted_tool_calls
    /\ pending_events = ProtocolStreamStateDefault.pending_events
    /\ text_started = ProtocolStreamStateDefault.text_started
    /\ finish_reason = ProtocolStreamStateDefault.finish_reason
    /\ StreamIdle
    /\ args \in CollectArgs
    /\ result = Collecting(<<>>, 0, FALSE, 0)
    /\ streams = NoStreams
    /\ PtyIdle

\* one turn of the loop that receives the next item (or times out)
CollectNext ==
    /\ result.tag = "running"
    /\ result.consumed < Len(args.items)
    /\ result' = CollectItem(result, args.items[result.consumed + 1])
    /\ UNCHANGED <<stateVars, calls, lastKind, ret, delivered, synth, phase, whole, frame, args,
                   streams, ptyVars>>

\* line 49: the stream has ended
CollectEnd ==
    /\ result.tag = "running"
    /\ result.consumed = Len(args.items)
    /\ result' = CollectOk(result, result.consumed)
    /\ UNCHANGED <<stateVars, calls, lastKind, ret, delivered, synth, phase, whole, frame, args,
                   streams, ptyVars>>

CollectStep == CollectNext \/ CollectEnd

CollectSpec == CollectInit /\ [][CollectStep]_vars

\* what ends collect_text: Done, an Error event, an Err item or a timeout
IsStop(item) == item.k # "ok" \/ item.ev.type \in {"Done", "Error"}
\* position of the first such item, Len(items) + 1 when the stream just ends
RECURSIVE StopIndex(_)
StopIndex(items) ==
    IF items = <<>> \/ IsStop(Head(items)) THEN 1 ELSE 1 + StopIndex(Tail(items))
\* the TextDelta events among the items before position n
DeltasBefore(items, n) ==
    SelectSeq(SubSeq(items, 1, n - 1), LAMBDA it : it.ev.type = "TextDelta")
RECURSIVE ConcatTexts(_)
ConcatTexts(its) == IF its = <<>> THEN <<>> ELSE Head(its).ev.text \o ConcatTexts(Tail(its))
\* the stream ends, or reaches Done, before any failure
EndsWell(items) ==
    StopIndex(items) > Len(items) \/ (items[StopIndex(items)].k = "ok"
                                      /\ items[StopIndex(items)].ev.type = "Done")

(***************************************************************************)
(* build_messages                                                          *)
(***************************************************************************)
\* parts of a message, drawn from a small set: blank and non-blank texts,
\* an image, tool calls with a name, an empty name and a blank name
ContentParts ==
    {PartText(<<"a">>), PartText(<<" ">>),
     PartReasoning(<<"b">>), PartReasoning(<<>>),
     PartImage(<<"i">>),
     PartToolCall("call_1", <<"f">>, JMap(EmptyMap)),
     PartToolCall("call_2", <<>>, JNull),
     PartToolCall("call_3", <<" ">>, JString(<<"x">>)),
     PartToolResult("call_1", <<"f">>, JMap("value" :> JString(<<"ok">>)))}
AssistantContents ==
    {MText(<<>>), MText(<<" ">>), MText(<<" ", "a">>)}
    \cup {MParts(q) : q \in SeqsUpTo(ContentParts, MaxParts)}
AssistantOptions ==
    {None,
     Some(JNull),
     Some(JMap("openaiCompatible" :> JMap(EmptyMap))),
     Some(JMap("openaiCompatible" :> JMap("reasoning_content" :> JString(<<>>)))),
     Some(JMap("openaiCompatible" :> JMap("reasoning_content" :> JString(<<"t">>)))),
     Some(JMap("openai" :> JMap("reasoning_content" :> JString(<<"t">>))))}
AssistantMessages ==
    {[role |-> "assistant", content |-> c, provider_options |-> o] :
        c \in AssistantContents, o \in AssistantOptions}
ToolResultParts ==
    {PartToolResult("call_1", <<"f">>, JMap("value" :> JString(<<"ok">>))),
     PartToolResult("call_2", <<"g">>, JNull)}
\* tool messages with any results, and one with a part that is not a result
ToolMessages ==
    {[role |-> "tool", content |-> MParts(q)] : q \in SeqsUpTo(ToolResultParts, MaxResults)}
    \cup {[role |-> "tool",
           content |-> MParts(<<PartText(<<"a">>), PartToolResult("call_2", <<"g">>, JNull)>>)]}
MixedMessages ==
    {[role |-> "system", content |-> MText(<<"be brief">>)],
     [role |-> "user", content |-> MText(<<"hi">>)],
     [role |-> "user", content |-> MParts(<<PartText(<<"a">>), PartImage(<<"i">>)>>)],
     [role |-> "assistant", content |-> MText(<<"a">>), provider_options |-> None]}
    \cup ToolMessages
MessageArgs ==
    [fn : {"build_messages"},
     messages : SeqsUpTo(MixedMessages, MaxMessages) \cup {<<m>> : m \in AssistantMessages}]

\* the caller has its messages ready and has not called build_messages yet
MessageInit ==
    /\ tool_call_index_map = ProtocolStreamStateDefault.tool_call_index_map
    /\ tool_calls = ProtocolStreamStateDefault.tool_calls
    /\ tool_call_order = ProtocolStreamStateDefault.tool_call_order
    /\ emitted_tool_calls = ProtocolStreamStateDefault.emitted_tool_calls
    /\ pending_events = ProtocolStreamStateDefault.pending_events
    /\ text_started = ProtocolStreamStateDefault.text_started
    /\ finish_reason = ProtocolStreamStateDefault.finish_reason
    /\ StreamIdle
    /\ args \in MessageArgs
    /\ result = NoResult
    /\ streams = NoStreams
    /\ PtyIdle

BuildMessagesCall ==
    /\ result = NoResult
    /\ result' = [tag |-> "ok", wire |-> BuildMessages(args.messages)]
    /\ UNCHANGED <<stateVars, calls, lastKind, ret, delivered, synth, phase, whole, frame, args,
                   streams, ptyVars>>

MessageNext == BuildMessagesCall

MessageSpec == MessageInit /\ [][MessageNext]_vars

(***************************************************************************)
(* Terminal sessions (terminal.rs): the registry, the reader task of each  *)
(* session, and the commands pty_spawn, pty_write and pty_kill.  A session *)
(* of the registry holds only its writer, so the registry is modelled as   *)
(* the set of its keys.  Commands hold the registry lock for their whole   *)
(* body; the reader task takes it only to remove its session.              *)
(***************************************************************************)
adapterVars == <<stateVars, calls, lastKind, ret, delivered, synth, phase, whole, frame,
                 args, result, streams>>

PtyIds == 1..MaxPtys
PtyOutput(pty_id, data) == [event |-> "pty-output", pty_id |-> pty_id, data |-> data]
PtyClose(pty_id) == [event |-> "pty-close", pty_id |-> pty_id]
Returned(fn, pty_id, res) == [fn |-> fn, pty_id |-> pty_id, res |-> res]

\* reads that returned data so far, emitted or about to be emitted
DataReads ==
    Len(SelectSeq(app_events, LAMBDA e : e.event = "pty-output" /\ e.data # ""))
        + Cardinality({id \in DOMAIN reader : reader[id] = "emit_data"})

\* lines 243-314: the session is stored under a fresh id and its reader task
\* is started; lines 233-245: or the shell or its pty cannot be set up
PtySpawn ==
    /\ Cardinality(DOMAIN reader) < MaxPtys
    /\ LET pty_id == Cardinality(DOMAIN reader) + 1 IN
       \/ /\ PTY_SESSIONS' = PTY_SESSIONS \cup {pty_id}
          /\ reader' = (pty_id :> "read") @@ reader
          /\ pty_ret' = Returned("pty_spawn", pty_id, "ok")
       \/ /\ pty_ret' = Returned("pty_spawn", 0, "error")
          /\ UNCHANGED <<PTY_SESSIONS, reader>>
    /\ UNCHANGED <<app_events, killed, adapterVars>>

\* line 266: reader.read returns some bytes, zero bytes, or an error
ReaderRead(pty_id) ==
    /\ pty_id \in DOMAIN reader
    /\ reader[pty_id] = "read"
    /\ \/ /\ DataReads < MaxReads
          /\ reader' = [reader EXCEPT ![pty_id] = "emit_data"]
       \/ reader' = [reader EXCEPT ![pty_id] = "emit_eof"]
       \/ reader' = [reader EXCEPT ![pty_id] = "cleanup"]
    /\ UNCHANGED <<PTY_SESSIONS, app_events, pty_ret, killed, adapterVars>>

\* lines 267-292: the pty-output event for the bytes read (empty data when
\* the pty was closed)
ReaderEmit(pty_id) ==
    /\ pty_id \in DOMAIN reader
    /\ reader[pty_id] \in {"emit_data", "emit_eof"}
    /\ app_events' = Append(app_events,
                            PtyOutput(pty_id, IF reader[pty_id] = "emit_data"
                                              THEN "data" ELSE ""))
    /\ reader' = [reader EXCEPT ![pty_id] = IF @ = "emit_data" THEN "read" ELSE "cleanup"]
    /\ UNCHANGED <<PTY_SESSIONS, pty_ret, killed, adapterVars>>

\* lines 300-302
ReaderCleanup(pty_id) ==
    /\ pty_id \in DOMAIN reader
    /\ reader[pty_id] = "cleanup"
    /\ PTY_SESSIONS' = PTY_SESSIONS \ {pty_id}
    /\ reader' = [reader EXCEPT ![pty_id] = "close"]
    /\ UNCHANGED <<app_events, pty_ret, killed, adapterVars>>

\* lines 304-308
ReaderClose(pty_id) ==
    /\ pty_id \in DOMAIN reader
    /\ reader[pty_id] = "close"
    /\ app_events' = Append(app_events, PtyClose(pty_id))
    /\ reader' = [reader EXCEPT ![pty_id] = "done"]
    /\ UNCHANGED <<PTY_SESSIONS, pty_ret, killed, adapterVars>>

\* lines 317-343
PtyWrite(pty_id) ==
    /\ IF pty_id \in PTY_SESSIONS
       THEN \/ pty_ret' = Returned("pty_write", pty_id, "ok")
            \/ pty_ret' = Returned("pty_write", pty_id, "io_error")
       ELSE pty_ret' = Returned("pty_write", pty_id, "not_found")
    /\ UNCHANGED <<PTY_SESSIONS, reader, app_events, killed, adapterVars>>

\* lines 355-365
PtyKill(pty_id) ==
    /\ IF pty_id \in PTY_SESSIONS
       THEN /\ PTY_SESSIONS' = PTY_SESSIONS \ {pty_id}
            /\ pty_ret' = Returned("pty_kill", pty_id, "ok")
            /\ killed' = (pty_id :> Len(app_events)) @@ killed
       ELSE /\ pty_ret' = Returned("pty_kill", pty_id, "not_found")
            /\ UNCHANGED <<PTY_SESSIONS, killed>>
    /\ UNCHANGED <<reader, app_events, adapterVars>>

PtyNext ==
    \/ PtySpawn
    \/ \E pty_id \in PtyIds :
          \/ ReaderRead(pty_id)
          \/ ReaderEmit(pty_id)
          \/ ReaderCleanup(pty_id)
          \/ ReaderClose(pty_id)
          \/ PtyWrite(pty_id)
          \/ PtyKill(pty_id)

PtySpec == Init /\ [][PtyNext]_vars

(***************************************************************************)
(* Properties                                                              *)
(***************************************************************************)
AllEvents == delivered \o pending_events
IsToolCall(e) == e.type = "ToolCall"
IsTextDelta(e) == e.type = "TextDelta"
IsCall == calls' = calls + 1

\* the tool-call entry carried by a delta frame of ToolSpec
EntryOf(data) == Unwrap(Unwrap(Head(data.payload.choices).delta).tool_calls)[1]
IsDeltaCall == IsCall /\ lastKind' = "delta"
\* an entry that carries a non-empty id or a numeric index
Keyed(entry) == entry.id # "" \/ entry.index # NoIndex
\* the accumulator fields stored under a key before the call
OldName(key) == IF key \in DOMAIN tool_calls THEN tool_calls[key].tool_name ELSE ""
OldArguments(key) == IF key \in DOMAIN tool_calls THEN tool_calls[key].arguments ELSE <<>>
\* events synthesized by the call being taken
NewEvents == SubSeq(synth', Len(synth) + 1, Len(synth'))

\* the correlation key of an entry that carries an id or an index, read off
\* the state before the call
KeyOf(entry) ==
    IF entry.id # "" THEN entry.id
    ELSE IF entry.index \in DOMAIN tool_call_index_map THEN tool_call_index_map[entry.index]
    ELSE IF entry.index + 1 <= Len(tool_call_order) THEN tool_call_order[entry.index + 1]
    ELSE IndexToString(entry.index)
IsPrefix(s, t) == Len(s) <= Len(t) /\ SubSeq(t, 1, Len(s)) = s
\* the keys emitted by the call being taken, in tool_call_order order
NewlyEmitted ==
    SelectSeq(tool_call_order', LAMBDA k : k \in emitted_tool_calls' \ emitted_tool_calls)

\* C1: no two ToolCall events ever queued or delivered carry the same
\* tool_call_id, however many deltas and flushes there were.
C1_ToolCallIdEmittedOnce ==
    \A i, j \in 1..Len(AllEvents) :
        (i # j /\ IsToolCall(AllEvents[i]) /\ IsToolCall(AllEvents[j]))
            => AllEvents[i].tool_call_id # AllEvents[j].tool_call_id

C1_Witness ==
    /\ emitted_tool_calls = {"call_1", "call_2"}
    /\ finish_reason = Some("tool_calls")
    /\ lastKind = "done"
    /\ tool_calls["call_1"].arguments = <<"{", "}">>

\* C2: whatever the split of an argument text into fragments sent in
\* successive deltas for one key, the buffer equals the whole text and the
\* ToolCall events are those of the text sent in one delta.
C2_SplitEqualsWhole ==
    /\ calls > 0 => /\ "call_1" \in DOMAIN tool_calls
                    /\ tool_calls["call_1"].arguments = whole
    /\ \A i \in 1..Len(synth) :
          IsToolCall(synth[i]) =>
              \E j \in 1..Len(OneDeltaToolCalls(whole)) : OneDeltaToolCalls(whole)[j] = synth[i]
    /\ (lastKind = "done" /\ GotDone)
          => SelectSeq(synth, IsToolCall) = OneDeltaToolCalls(whole)

C2_Witness ==
    /\ lastKind = "done" /\ GotDone
    /\ whole = <<"{", " ", "}">>
    /\ \E i \in 1..Len(delivered) :
          delivered[i] = ToolCall("call_1", "readFile", JObject)

\* C3: no ToolCall is emitted from a buffer that receives further fragments
\* later: once a key is emitted, its argument buffer no longer changes.
C3_EmittedBufferIsFinal ==
    [][\A k \in emitted_tool_calls :
          tool_calls'[k].arguments = tool_calls[k].arguments]_vars

\* C4: in the delivered events a TextStart comes before the first TextDelta,
\* and at most one TextStart is ever produced.
C4_OneTextStartBeforeText ==
    /\ \A i \in 1..Len(delivered) :
          IsTextDelta(delivered[i]) => \E j \in 1..(i - 1) : delivered[j] = TextStart
    /\ Cardinality({i \in 1..Len(AllEvents) : AllEvents[i] = TextStart}) <= 1

C4_Witness ==
    /\ Len(SelectSeq(delivered, IsTextDelta)) >= 2
    /\ delivered[1].type = "Usage"
    /\ calls >= 3

\* C5: the events delivered so far followed by the queued ones are exactly
\* the synthesized events, in the order of their synthesis.
C5_DeliveredInSynthesisOrder == delivered \o pending_events = synth

C5_Witness ==
    /\ Len(delivered) > calls
    /\ pending_events # <<>>
    /\ \E i \in 1..Len(delivered) : IsToolCall(delivered[i])

\* C6: a [DONE] call returns, after the force flush, the oldest queued event,
\* or Done with the last captured finish_reason when nothing is queued; it
\* never returns None or an error.
C6_DoneAlwaysYieldsEvent ==
    [][(IsCall /\ lastKind' = "done") =>
          LET q == EmitToolCalls(CurrentState, TRUE).pending_events IN
          ret' = RetEvent(IF q # <<>> THEN Head(q) ELSE Done(finish_reason))]_vars

C6_Witness ==
    /\ lastKind = "done"
    /\ ret.tag = "event"
    /\ IsToolCall(ret.ev)
    /\ pending_events # <<>>

\* C7: when a call has returned Done nothing is queued, every accumulator
\* with a name is emitted, and Done is the last of the synthesized events.
C7_DoneIsTerminal ==
    GotDone =>
        /\ pending_events = <<>>
        /\ \A k \in DOMAIN tool_calls :
              tool_calls[k].tool_name # "" => k \in emitted_tool_calls
        /\ delivered = synth
        /\ delivered[Len(delivered)] = ret.ev

C7_Witness ==
    /\ GotDone
    /\ Cardinality(emitted_tool_calls) = 2
    /\ ret.ev.finish_reason = Some("tool_calls")

\* C8 as stated: while the caller drains with [DONE] the queue never grows.
C8_QueueNeverGrows ==
    [][(phase = "drain" /\ IsCall) => Len(pending_events') <= Len(pending_events)]_vars

\* C8 amended: a caller that keeps sending [DONE] gets the oldest queued event
\* at each call and finally Done; the first [DONE] call may lengthen the queue
\* by the force flush, every later one shortens it by one.
C8_DrainDeliversAllThenDone ==
    /\ (phase = "drain") ~> (lastKind = "done" /\ GotDone)
    /\ [][(phase = "drain" /\ IsCall) =>
             /\ pending_events # <<>> => ret' = RetEvent(Head(pending_events))
             /\ delivered' \o pending_events' = synth'
             /\ (lastKind = "done" /\ pending_events # <<>>)
                   => Len(pending_events') = Len(pending_events) - 1
             /\ (lastKind = "done" /\ pending_events = <<>>)
                   => (pending_events' = <<>> /\ ret' = RetEvent(Done(finish_reason)))]_vars

C8_Witness ==
    /\ phase = "drain"
    /\ lastKind = "done" /\ GotDone
    /\ Len(delivered) >= 4
    /\ Cardinality(emitted_tool_calls) = 2

\* C9 as stated: after a call has returned an event at most one event remains queued.
C9_AtMostOneResidual ==
    [][(IsCall /\ ret'.tag = "event") => Len(pending_events') <= 1]_vars

\* C9 amended: after a call has returned an event the queue holds at most what
\* was queued before the call, two more events of the frame (of its Usage,
\* TextStart and TextDelta) and one ToolCall per accumulator flushed by the call.
C9_ResidualBound ==
    [][(IsCall /\ ret'.tag = "event") =>
          Len(pending_events') <= Len(pending_events) + 2
                + Cardinality(emitted_tool_calls' \ emitted_tool_calls)]_vars

C9_Witness ==
    /\ calls = 1
    /\ ret = RetEvent(Usage(1, 2, Some(3)))
    /\ Len(pending_events) = 3

\* C10: a frame that is neither the sentinel nor JSON makes the call return an
\* error and leaves every field of the state as it was.
C10_MalformedLeavesState ==
    [][(IsCall /\ lastKind' = "bad") => (ret' = RetErr /\ UNCHANGED stateVars)]_vars

C10_Witness ==
    /\ lastKind = "bad"
    /\ ret = RetErr
    /\ pending_events # <<>>
    /\ DOMAIN tool_calls # {}
    /\ text_started

\* C11 (as stated): every entry of delta.tool_calls is attributed to an
\* accumulator: the call does not fail, and some accumulator holds the entry's
\* name and its arguments afterwards.
C11_EveryEntryAttributed ==
    [][IsDeltaCall =>
          LET e == EntryOf(frame') IN
          /\ ret' # RetErr
          /\ \E k \in DOMAIN tool_calls' :
                /\ e.name # "" => tool_calls'[k].tool_name = e.name
                /\ e.arguments.k = "str" =>
                      tool_calls'[k].arguments = OldArguments(k) \o e.arguments.s
                /\ e.arguments.k = "json" =>
                      tool_calls'[k].arguments
                          \in {ValueToString(e.arguments.v),
                               OldArguments(k) \o ValueToString(e.arguments.v)}]_vars

\* C11 (amended): an entry that carries an id or an index is attributed to an
\* accumulator (under the index rendered as a string when no id can be
\* resolved): the call does not fail, a non-empty name is stored, a string
\* fragment is appended, and a non-string value is stored only while the buffer
\* is empty; an entry with neither id nor index is skipped and changes no
\* accumulator.
C11_KeyedEntryAttributed ==
    [][IsDeltaCall =>
          LET e == EntryOf(frame')
              unresolved == /\ e.id = ""
                            /\ e.index # NoIndex
                            /\ e.index \notin DOMAIN tool_call_index_map
                            /\ e.index + 1 > Len(tool_call_order)
          IN
          /\ ret' # RetErr
          /\ Keyed(e) =>
                \E k \in DOMAIN tool_calls' :
                   /\ unresolved => k = IndexToString(e.index)
                   /\ e.name # "" => tool_calls'[k].tool_name = e.name
                   /\ e.arguments.k = "str" =>
                         tool_calls'[k].arguments = OldArguments(k) \o e.arguments.s
                   /\ e.arguments.k = "json" =>
                         tool_calls'[k].arguments =
                            IF OldArguments(k) = <<>>
                            THEN ValueToString(e.arguments.v) ELSE OldArguments(k)
          /\ ~Keyed(e) =>
                UNCHANGED <<tool_call_index_map, tool_calls, tool_call_order>>]_vars

C11_Witness ==
    /\ lastKind = "delta"
    /\ ~Keyed(EntryOf(frame))
    /\ "0" \in DOMAIN tool_calls
    /\ tool_calls["0"].tool_name = "readFile"
    /\ tool_calls["0"].arguments = <<"{">>

\* C12: the key of an entry is its own non-empty id; else the id recorded for
\* its index in tool_call_index_map; else the key at position index of
\* tool_call_order; else the index rendered as a string.  The accumulator under
\* that key, and no other, receives the entry.
C12_KeyPriority ==
    [][(IsDeltaCall /\ Keyed(EntryOf(frame'))) =>
          LET e == EntryOf(frame')
              k == IF e.id # "" THEN e.id
                   ELSE IF e.index \in DOMAIN tool_call_index_map
                        THEN tool_call_index_map[e.index]
                   ELSE IF e.index + 1 <= Len(tool_call_order)
                        THEN tool_call_order[e.index + 1]
                   ELSE IndexToString(e.index)
          IN
          /\ k \in DOMAIN tool_calls'
          /\ Contains(tool_call_order', k)
          /\ e.name # "" => tool_calls'[k].tool_name = e.name
          /\ e.arguments.k = "str" =>
                tool_calls'[k].arguments = OldArguments(k) \o e.arguments.s
          /\ \A j \in DOMAIN tool_calls' \ {k} :
                j \in DOMAIN tool_calls /\ tool_calls'[j] = tool_calls[j]]_vars

\* an entry with index 0 and no id is routed by position in tool_call_order
C12_Witness ==
    /\ lastKind = "delta"
    /\ EntryOf(frame).id = ""
    /\ EntryOf(frame).index = 0
    /\ tool_call_index_map = EmptyMap
    /\ DOMAIN tool_calls = {"call_1"}
    /\ tool_calls["call_1"].arguments = <<"{", "{">>

\* C13: after a delta is routed to a key, the accumulator's tool_name is the
\* incoming name when that is non-empty and the stored name otherwise (empty
\* only if neither exists); likewise an incoming id replaces tool_call_id only
\* when it is non-empty.
C13_LastNonEmptyWins ==
    [][(IsDeltaCall /\ Keyed(EntryOf(frame'))) =>
          LET e == EntryOf(frame')
              k == IF e.id # "" THEN e.id
                   ELSE IF e.index \in DOMAIN tool_call_index_map
                        THEN tool_call_index_map[e.index]
                   ELSE IF e.index + 1 <= Len(tool_call_order)
                        THEN tool_call_order[e.index + 1]
                   ELSE IndexToString(e.index)
          IN
          /\ tool_calls'[k].tool_name = (IF e.name # "" THEN e.name ELSE OldName(k))
          /\ tool_calls'[k].tool_call_id =
                (IF e.id # "" THEN e.id
                 ELSE IF k \in DOMAIN tool_calls THEN tool_calls[k].tool_call_id
                 ELSE k)
          /\ tool_calls'[k].tool_call_id # ""]_vars

\* a second name replaced the first and an entry without a name kept it
C13_Witness ==
    /\ calls = 3
    /\ lastKind = "delta"
    /\ EntryOf(frame).name = ""
    /\ EntryOf(frame).id = ""
    /\ DOMAIN tool_calls = {"call_1"}
    /\ tool_calls["call_1"].tool_name = "listFiles"
    /\ tool_calls["call_1"].tool_call_id = "call_1"
    /\ tool_calls["call_1"].arguments = <<"{", "{">>

\* C14: in the call whose frame captures finish_reason "tool_calls", every
\* accumulator not yet emitted that has a name and non-blank arguments is
\* queued as a ToolCall, one event each, in tool_call_order order.
C14_FinishFlushesReady ==
    [][(IsCall /\ lastKind' = "finish") =>
          LET due == SelectSeq(tool_call_order',
                               LAMBDA k : /\ k \notin emitted_tool_calls
                                          /\ tool_calls'[k].tool_name # ""
                                          /\ Trim(tool_calls'[k].arguments) # <<>>)
              new == SelectSeq(NewEvents, IsToolCall)
          IN
          /\ finish_reason' = Some("tool_calls")
          /\ Len(new) = Len(due)
          /\ \A i \in 1..Len(due) :
                /\ due[i] \in emitted_tool_calls'
                /\ new[i].tool_call_id = tool_calls'[due[i]].tool_call_id
                /\ new[i].tool_name = tool_calls'[due[i]].tool_name
                /\ new[i].input = EmitInput(tool_calls'[due[i]].arguments)]_vars

\* two accumulators are flushed by the finish frame: one returned, one queued
C14_Witness ==
    /\ lastKind = "finish"
    /\ emitted_tool_calls = {"call_1", "call_2"}
    /\ tool_call_order = <<"call_2", "call_1">>
    /\ ret.tag = "event"
    /\ IsToolCall(ret.ev)
    /\ ret.ev.tool_call_id = "call_2"
    /\ Len(pending_events) = 1
    /\ IsToolCall(pending_events[1])
    /\ pending_events[1].tool_call_id = "call_1"

\* C15: an accumulator whose arguments are empty once finish_reason
\* "tool_calls" is stored is emitted by no frame other than the sentinel, the
\* sentinel emits it, and a frame that carries no finish_reason emits nothing.
C15_DeferredUntilDone ==
    [][IsCall =>
          /\ lastKind' # "done" =>
                \A k \in DOMAIN tool_calls :
                   (/\ finish_reason = Some("tool_calls")
                    /\ k \notin emitted_tool_calls
                    /\ tool_calls[k].arguments = <<>>) => k \notin emitted_tool_calls'
          /\ lastKind' = "done" =>
                \A k \in DOMAIN tool_calls :
                   tool_calls[k].tool_name # "" => k \in emitted_tool_calls'
          /\ lastKind' = "delta" => emitted_tool_calls' = emitted_tool_calls]_vars

\* C16: when the first delta of a call carries index, id and name, the later
\* ones the index and argument fragments, and a frame with finish_reason
\* "tool_calls" follows, the stream holds exactly one ToolCall, with that id
\* and name and the JSON value of the concatenated fragments, and the call
\* that processes the finish frame returns it.
C16_FragmentsYieldOneToolCall ==
    (finish_reason = Some("tool_calls") /\ IsSome(FromStr(whole))) =>
        LET tc == ToolCall("call_1", "readFile", Unwrap(FromStr(whole))) IN
        /\ SelectSeq(synth, IsToolCall) = <<tc>>
        /\ lastKind = "json" => ret = RetEvent(tc)

C16_Witness ==
    /\ calls = 3
    /\ lastKind = "json"
    /\ finish_reason = Some("tool_calls")
    /\ whole = <<"{", "}">>
    /\ tool_calls["call_1"].arguments = whole
    /\ ret = RetEvent(ToolCall("call_1", "readFile", JObject))
    /\ pending_events = <<>>

\* C17: a call queues a Usage event exactly when its frame's usage member is
\* an object: one Usage event, ahead of the frame's other events, for an
\* object, and none when usage is absent or not an object (null).
C17_UsageIffObject ==
    [][(IsCall /\ lastKind' = "json") =>
          LET u == frame'.payload.usage
              n == Len(SelectSeq(NewEvents, LAMBDA e : e.type = "Usage"))
          IN IF IsSome(u) /\ Unwrap(u).j = "object"
             THEN n = 1 /\ NewEvents[1].type = "Usage"
             ELSE n = 0]_vars

\* C18: finish_reason is the string carried by the latest frame whose
\* choices[0].finish_reason was a string, and none before any such frame: a
\* frame with a string finish_reason stores it, every other call leaves the
\* field as it was, and a returned Done carries the stored value.
C18_FinishReasonIsLatest ==
    [][IsCall =>
          LET captured == /\ lastKind' = "json"
                          /\ frame'.payload.choices # <<>>
                          /\ IsSome(Head(frame'.payload.choices).finish_reason)
          IN
          /\ finish_reason' = IF captured
                              THEN Head(frame'.payload.choices).finish_reason
                              ELSE finish_reason
          /\ calls = 0 => finish_reason = None
          /\ (ret'.tag = "event" /\ ret'.ev.type = "Done") =>
                ret'.ev.finish_reason = finish_reason']_vars

\* Done carries "stop" although "tool_calls" was stored earlier (its flush
\* queued the ToolCall that was delivered before)
C18_Witness ==
    /\ calls = 3
    /\ lastKind = "done"
    /\ finish_reason = Some("stop")
    /\ delivered = <<TextStart, ToolCall("call_1", "readFile", JString(<<"{">>)),
                     Done(Some("stop"))>>

\* the members of an object-valued extra_body (none for any other extra_body)
ExtraFields(a) ==
    IF IsSome(a.extra_body) /\ Unwrap(a.extra_body).j = "object"
    THEN Unwrap(a.extra_body).fields ELSE EmptyMap

\* C19: in the body returned by build_request every member of an object-valued
\* extra_body has the value given there, also where a computed member has the
\* same name, and every other member has its computed value; there are no
\* further members.
C19_ExtraBodyOverrides ==
    result.tag = "ok" =>
        LET body == result.body.fields
            extra == ExtraFields(args)
            options == IF IsSome(args.provider_options)
                       THEN Unwrap(args.provider_options) ELSE JNull
            openai == JGet(options, "openai")
            openrouter == JGet(options, "openrouter")
            effort == IF IsSome(openai) THEN JGet(Unwrap(openai), "reasoningEffort") ELSE None
            reasoning == IF IsSome(openrouter) THEN JGet(Unwrap(openrouter), "effort") ELSE None
            computed == {"model", "messages", "stream", "stream_options"}
                        \cup (IF IsSome(args.tools) THEN {"tools"} ELSE {})
                        \cup (IF IsSome(args.temperature) THEN {"temperature"} ELSE {})
                        \cup (IF IsSome(args.max_tokens) THEN {"max_tokens"} ELSE {})
                        \cup (IF IsSome(args.top_p) THEN {"top_p"} ELSE {})
                        \cup (IF IsSome(args.top_k) THEN {"top_k"} ELSE {})
                        \cup (IF IsSome(effort) THEN {"reasoning_effort"} ELSE {})
                        \cup (IF IsSome(reasoning) THEN {"reasoning"} ELSE {})
            Computed(k) ==
                CASE k = "model" -> JString(args.model)
                  [] k = "messages" -> JArray(BuildMessages(args.messages))
                  [] k = "stream" -> JBool(TRUE)
                  [] k = "stream_options" -> JMap("include_usage" :> JBool(TRUE))
                  [] k = "tools" -> JArray(Unwrap(BuildTools(args.tools)))
                  [] k = "temperature" -> JNumber(Unwrap(args.temperature))
                  [] k = "max_tokens" -> JNumber(Unwrap(args.max_tokens))
                  [] k = "top_p" -> JNumber(Unwrap(args.top_p))
                  [] k = "top_k" -> JNumber(Unwrap(args.top_k))
                  [] k = "reasoning_effort" -> Unwrap(effort)
                  [] k = "reasoning" -> JMap("effort" :> Unwrap(reasoning))
        IN
        /\ DOMAIN body = computed \cup DOMAIN extra
        /\ \A k \in DOMAIN extra : body[k] = extra[k]
        /\ \A k \in computed \ DOMAIN extra : body[k] = Computed(k)

\* extra_body replaces the computed model and max_tokens and nothing else
C19_Witness ==
    /\ result.tag = "ok"
    /\ args.max_tokens = Some(120)
    /\ args.top_k = Some(40)
    /\ args.extra_body = Some(JMap(("model" :> JString("other")) @@ ("max_tokens" :> JNumber(9))))
    /\ result.body.fields["model"] = JString("other")
    /\ result.body.fields["max_tokens"] = JNumber(9)
    /\ result.body.fields["top_k"] = JNumber(40)

\* C20: build_request leaves the tools member out when no tools are given
\* (absent or an empty list) and otherwise sends one function entry per
\* ToolDefinition, in order; it never sends an empty tools array.
C20_NoEmptyToolsArray ==
    (result.tag = "ok" /\ "tools" \notin DOMAIN ExtraFields(args)) =>
        LET body == result.body.fields IN
        IF ~IsSome(args.tools) \/ Unwrap(args.tools) = <<>>
        THEN "tools" \notin DOMAIN body
        ELSE /\ "tools" \in DOMAIN body
             /\ body["tools"].j = "array"
             /\ Len(body["tools"].items) = Len(Unwrap(args.tools))
             /\ \A i \in 1..Len(Unwrap(args.tools)) :
                   LET entry == body["tools"].items[i]
                       tool == Unwrap(args.tools)[i]
                   IN /\ JGet(entry, "type") = Some(JString("function"))
                      /\ JGet(entry, "function") =
                            Some(JMap(("name" :> JString(tool.name)) @@
                                      ("description" :> JString(tool.description)) @@
                                      ("parameters" :> tool.parameters)))

\* C21: build_headers returns Content-Type application/json, and Authorization
\* "Bearer <oauth_token>" when an OAuth token is given, else "Bearer <api_key>"
\* when an API key is given, else no Authorization; every entry of
\* extra_headers is in the result with its own value, replacing a computed
\* header of the same name, and there are no other headers.
C21_HeadersAndOverrides ==
    result.tag = "headers" =>
        LET h == result.headers
            extra == IF IsSome(args.extra_headers) THEN Unwrap(args.extra_headers)
                     ELSE EmptyMap
            auth == IF IsSome(args.oauth_token) \/ IsSome(args.api_key)
                    THEN {"Authorization"} ELSE {}
        IN
        /\ DOMAIN h = {"Content-Type"} \cup auth \cup DOMAIN extra
        /\ \A k \in DOMAIN extra : h[k] = extra[k]
        /\ "Content-Type" \notin DOMAIN extra => h["Content-Type"] = <<"application/json">>
        /\ ("Authorization" \notin DOMAIN extra /\ IsSome(args.oauth_token)) =>
              h["Authorization"] = <<"Bearer ", Unwrap(args.oauth_token)>>
        /\ ("Authorization" \notin DOMAIN extra /\ ~IsSome(args.oauth_token)
               /\ IsSome(args.api_key)) =>
              h["Authorization"] = <<"Bearer ", Unwrap(args.api_key)>>

\* both credentials given: the OAuth token is sent, next to an extra header
C21_Witness ==
    /\ result.tag = "headers"
    /\ args.api_key = Some("api")
    /\ args.oauth_token = Some("oauth")
    /\ args.extra_headers = Some("X-Test" :> <<"1">>)
    /\ result.headers["Authorization"] = <<"Bearer ", "oauth">>
    /\ result.headers["X-Test"] = <<"1">>

C23_TextIsTrimmedConcatenation ==
    EndsWell(args.items) =>
        LET n == StopIndex(args.items)
            deltas == DeltasBefore(args.items, n)
        IN
        /\ result.tag # "err"
        /\ result.tag = "ok" =>
              /\ result.text = Trim(ConcatTexts(deltas))
              /\ result.delta_count = Len(deltas)
              /\ result.first_delta = (deltas # <<>>)
        /\ result.tag = "running" =>
              /\ result.consumed < n
              /\ result.full_text = ConcatTexts(DeltasBefore(args.items, result.consumed + 1))
              /\ result.delta_count = Len(DeltasBefore(args.items, result.consumed + 1))

\* two deltas around another event, then Done: surrounding blanks are removed
C23_Witness ==
    /\ args.items = <<ItemOk(TextDelta(<<" ", "a">>)), ItemOk(TextStart),
                      ItemOk(TextDelta(<<"b", " ">>)), ItemOk(Done(Some("stop")))>>
    /\ result.tag = "ok"
    /\ result.text = <<"a", "b">>
    /\ result.delta_count = 2

\* C24: when an Error event, an Err item or a timeout comes before Done or the
\* end of the stream, collect_text never returns Ok: it returns an error that
\* carries no collected text, at that item, without consuming a further one.
C24_FailureGivesError ==
    ~EndsWell(args.items) =>
        LET n == StopIndex(args.items)
            item == args.items[n]
        IN
        /\ result.tag # "ok"
        /\ result.tag = "running" => result.consumed < n
        /\ result.tag = "err" =>
              /\ DOMAIN result = {"tag", "message", "consumed"}
              /\ result.consumed = IF item.k = "timeout" THEN n - 1 ELSE n
              /\ result.message =
                    (IF item.k = "timeout" THEN <<"Stream timeout after ", "timeout">>
                     ELSE IF item.k = "err" THEN <<item.e>>
                     ELSE <<"Stream error: ", item.ev.message>>)

\* text was collected, then the stream reported an error
C24_Witness ==
    /\ args.items = <<ItemOk(TextDelta(<<" ", "a">>)), ItemOk(ErrorEvent("boom")),
                      ItemOk(Done(Some("stop")))>>
    /\ result = CollectErr(<<"Stream error: ", "boom">>, 2)

\* C25: tool_call_order holds each key once, in the order in which the keys
\* were first resolved: a call only appends the newly resolved key, never
\* removes or moves one, and a flush emits in that order.
C25_OrderIsFirstSeen ==
    [][IsCall =>
          /\ IsPrefix(tool_call_order, tool_call_order')
          /\ \A i, j \in 1..Len(tool_call_order') :
                tool_call_order'[i] = tool_call_order'[j] => i = j
          /\ {tool_call_order'[i] : i \in 1..Len(tool_call_order')} = DOMAIN tool_calls'
          /\ (lastKind' = "delta" /\ Keyed(EntryOf(frame'))) =>
                tool_call_order' =
                   IF Contains(tool_call_order, KeyOf(EntryOf(frame')))
                   THEN tool_call_order
                   ELSE Append(tool_call_order, KeyOf(EntryOf(frame')))
          /\ lastKind' # "delta" => tool_call_order' = tool_call_order
          /\ LET new == SelectSeq(NewEvents, IsToolCall) IN
             /\ Len(new) = Len(NewlyEmitted)
             /\ \A i \in 1..Len(new) :
                   new[i].tool_call_id = tool_calls'[NewlyEmitted[i]].tool_call_id]_vars

\* the key seen first is touched again after a second key was added
C25_Witness ==
    /\ calls = 3
    /\ lastKind = "delta"
    /\ EntryOf(frame).id = "call_2"
    /\ tool_call_order = <<"call_2", "call_1">>

\* C26: tool_call_index_map is written once per index: the first entry with
\* both a non-empty id and an index records its id for that index, and no
\* later call changes or removes a recorded id.
C26_IndexMapWriteOnce ==
    [][IsCall =>
          /\ \A i \in DOMAIN tool_call_index_map :
                i \in DOMAIN tool_call_index_map'
                   /\ tool_call_index_map'[i] = tool_call_index_map[i]
          /\ \A i \in DOMAIN tool_call_index_map' \ DOMAIN tool_call_index_map :
                /\ lastKind' = "delta"
                /\ EntryOf(frame').index = i
                /\ EntryOf(frame').id # ""
                /\ tool_call_index_map'[i] = EntryOf(frame').id
          /\ (lastKind' = "delta" /\ EntryOf(frame').index # NoIndex
                 /\ EntryOf(frame').id # "") =>
                EntryOf(frame').index \in DOMAIN tool_call_index_map']_vars

\* a second id arrived at index 0 and the recorded one stayed
C26_Witness ==
    /\ lastKind = "delta"
    /\ EntryOf(frame).index = 0
    /\ EntryOf(frame).id = "call_2"
    /\ tool_call_index_map = (0 :> "call_1")
    /\ "call_2" \in DOMAIN tool_calls

\* C27: an arguments buffer only grows: after every call the previous buffer
\* is a prefix of the new one; a string fragment is appended as it is, and a
\* non-string value becomes the buffer, as its JSON text, only while the
\* buffer is empty and is ignored otherwise.
C27_ArgumentsOnlyGrow ==
    [][IsCall =>
          /\ \A k \in DOMAIN tool_calls :
                /\ k \in DOMAIN tool_calls'
                /\ IsPrefix(tool_calls[k].arguments, tool_calls'[k].arguments)
          /\ (lastKind' = "delta" /\ Keyed(EntryOf(frame'))) =>
                LET e == EntryOf(frame')
                    k == KeyOf(e)
                    old == OldArguments(k)
                IN
                /\ tool_calls'[k].arguments =
                      (CASE e.arguments.k = "str" -> old \o e.arguments.s
                         [] e.arguments.k = "json" ->
                               IF old = <<>> THEN ValueToString(e.arguments.v) ELSE old
                         [] OTHER -> old)
                /\ \A j \in DOMAIN tool_calls \ {k} :
                      tool_calls'[j].arguments = tool_calls[j].arguments
          /\ lastKind' # "delta" =>
                \A k \in DOMAIN tool_calls :
                   tool_calls'[k].arguments = tool_calls[k].arguments]_vars

\* a non-string value arrived for a buffer that already held a fragment
C27_Witness ==
    /\ calls = 2
    /\ lastKind = "delta"
    /\ EntryOf(frame).arguments = ArgJson(JObject)
    /\ EntryOf(frame).id = "call_1"
    /\ tool_calls["call_1"].arguments = <<"{">>

\* C28 (as stated): a flush never fails, and the input of every ToolCall it
\* emits is the JSON value parsed from the arguments buffer when the buffer
\* parses as JSON and else the raw buffer as a JSON string, for every buffer
\* including an empty or blank one.
C28_InputParsedOrRaw ==
    [][IsCall =>
          LET new == SelectSeq(NewEvents, IsToolCall) IN
          /\ ret' # RetErr
          /\ Len(new) = Len(NewlyEmitted)
          /\ \A i \in 1..Len(new) :
                LET buffer == tool_calls'[NewlyEmitted[i]].arguments IN
                new[i].input = IF IsSome(FromStr(buffer)) THEN Unwrap(FromStr(buffer))
                               ELSE JString(buffer)]_vars

\* C28 (amended): a flush never fails, and the input of every ToolCall it
\* emits is the empty JSON object when the arguments buffer is empty or blank,
\* the JSON value parsed from the buffer when it parses as JSON, and else the
\* raw buffer as a JSON string.
C28_InputEmptyParsedOrRaw ==
    [][IsCall =>
          LET new == SelectSeq(NewEvents, IsToolCall) IN
          /\ ret' # RetErr
          /\ Len(new) = Len(NewlyEmitted)
          /\ \A i \in 1..Len(new) :
                LET buffer == tool_calls'[NewlyEmitted[i]].arguments IN
                new[i].input = IF Trim(buffer) = <<>> THEN JObject
                               ELSE IF IsSome(FromStr(buffer)) THEN Unwrap(FromStr(buffer))
                               ELSE JString(buffer)]_vars

\* a blank buffer was flushed at the sentinel as the empty object
C28_Witness ==
    /\ lastKind = "done"
    /\ whole = <<" ">>
    /\ tool_calls["call_1"].arguments = <<" ">>
    /\ ret = RetEvent(ToolCall("call_1", "readFile", JObject))

\* C29: a delta that resolves to a key already in emitted_tool_calls is still
\* merged into the accumulator (name and arguments change), no call removes a
\* key from emitted_tool_calls, and no further ToolCall is produced for an
\* emitted key, so a call that reuses the index without a new id is not
\* surfaced.
C29_EmittedKeyMergedNotReEmitted ==
    [][IsCall =>
          /\ emitted_tool_calls \subseteq emitted_tool_calls'
          /\ Len(SelectSeq(NewEvents, IsToolCall))
                = Cardinality(emitted_tool_calls' \ emitted_tool_calls)
          /\ (lastKind' = "delta" /\ Keyed(EntryOf(frame'))
                 /\ KeyOf(EntryOf(frame')) \in emitted_tool_calls) =>
                LET e == EntryOf(frame')
                    k == KeyOf(e)
                IN
                /\ SelectSeq(NewEvents, IsToolCall) = <<>>
                /\ tool_calls'[k].tool_name =
                      (IF e.name # "" THEN e.name ELSE tool_calls[k].tool_name)
                /\ e.arguments.k = "str" =>
                      tool_calls'[k].arguments = tool_calls[k].arguments \o e.arguments.s]_vars

\* call_1 was emitted with one fragment; a later delta at its index, without
\* an id, lengthened its buffer, and nothing more was emitted
C29_Witness ==
    /\ calls = 3
    /\ lastKind = "delta"
    /\ EntryOf(frame).id = ""
    /\ emitted_tool_calls = {"call_1"}
    /\ tool_calls["call_1"].arguments = <<"{", "{">>
    /\ SelectSeq(synth, IsToolCall) = <<ToolCall("call_1", "readFile", JString(<<"{">>))>>

\* C30: an accumulator with an empty tool_name is emitted by no flush, forced
\* or not: every emitted key and every ToolCall has a non-empty name, and the
\* sentinel leaves an accumulator without a name unemitted, so its arguments
\* are never surfaced.
C30_NamelessNeverEmitted ==
    [][IsCall =>
          /\ \A k \in emitted_tool_calls' \ emitted_tool_calls :
                tool_calls'[k].tool_name # ""
          /\ \A i \in 1..Len(NewEvents) :
                IsToolCall(NewEvents[i]) => NewEvents[i].tool_name # ""
          /\ \A k \in DOMAIN tool_calls' :
                tool_calls'[k].tool_name = "" => k \notin emitted_tool_calls']_vars

\* the stream ended with Done while an accumulator without a name held arguments
C30_Witness ==
    /\ lastKind = "done"
    /\ GotDone
    /\ DOMAIN tool_calls = {"0"}
    /\ tool_calls["0"].tool_name = ""
    /\ tool_calls["0"].arguments = <<"{", "{">>
    /\ emitted_tool_calls = {}
    /\ SelectSeq(synth, IsToolCall) = <<>>

(***************************************************************************)
(* build_messages and build_assistant_message                              *)
(***************************************************************************)
IsToolResult(p) == p.part = "tool_result"

\* number of wire messages a message stands for
WireCount(msg) ==
    IF msg.role = "tool" THEN Len(SelectSeq(msg.content.parts, IsToolResult)) ELSE 1

\* number of wire messages that stand for the messages before the i-th
RECURSIVE WireOffset(_, _)
WireOffset(messages, i) ==
    IF i <= 1 THEN 0 ELSE WireOffset(messages, i - 1) + WireCount(messages[i - 1])

\* the wire message of the i-th message, which is not a tool message
WireOf(i) == result.wire[WireOffset(args.messages, i) + 1]

IsNonBlankText(p) == p.part \in {"text", "reasoning"} /\ Trim(p.text) # <<>>
IsContentEntry(p) == IsNonBlankText(p) \/ p.part = "image"
IsNamedToolCall(p) == p.part = "tool_call" /\ p.tool_name # <<>>
IsNonBlankToolCall(p) == p.part = "tool_call" /\ Trim(p.tool_name) # <<>>

\* C31: build_messages keeps the order of the messages; a system, user or
\* assistant message yields exactly one wire message with its role, and a
\* tool message yields one wire message per ToolResult part, in part order
\* (none when it has no ToolResult part).
C31_OneWirePerMessageOrResult ==
    result.tag = "ok" =>
        LET ms == args.messages
            w == result.wire
        IN /\ Len(w) = WireOffset(ms, Len(ms) + 1)
           /\ \A i \in 1..Len(ms) :
                IF ms[i].role = "tool"
                THEN LET rs == SelectSeq(ms[i].content.parts, IsToolResult)
                     IN \A k \in 1..Len(rs) :
                          LET m == w[WireOffset(ms, i) + k].fields
                          IN /\ m["role"] = JString("tool")
                             /\ m["tool_call_id"] = JString(rs[k].tool_call_id)
                ELSE WireOf(i).fields["role"] = JString(ms[i].role)

\* a tool message with two results, followed by a user message: three wire
\* messages
C31_Witness ==
    /\ result.tag = "ok"
    /\ Len(args.messages) = 2
    /\ args.messages[1].role = "tool"
    /\ WireCount(args.messages[1]) = 2
    /\ args.messages[2].role = "user"
    /\ Len(result.wire) = 3

\* C32: the content of the wire assistant message.  For Parts content with
\* an Image part it is the array of the non-blank text and reasoning
\* entries and the image entries, in part order; without an Image part it
\* is the concatenation, in part order, of the non-blank Text and Reasoning
\* texts as one string when there is any, and null otherwise.  For Text
\* content it is the string when non-blank and null otherwise.
C32_AssistantContent ==
    result.tag = "ok" =>
        \A i \in 1..Len(args.messages) :
            args.messages[i].role = "assistant" =>
                LET c == args.messages[i].content
                    w == WireOf(i).fields["content"]
                IN IF c.kind = "text"
                   THEN w = IF Trim(c.text) # <<>> THEN JString(c.text) ELSE JNull
                   ELSE LET kept == SelectSeq(c.parts, IsContentEntry)
                            texts == SelectSeq(c.parts, IsNonBlankText)
                        IN IF \E k \in 1..Len(c.parts) : c.parts[k].part = "image"
                           THEN /\ w.j = "array"
                                /\ Len(w.items) = Len(kept)
                                /\ \A k \in 1..Len(kept) :
                                     IF kept[k].part = "image"
                                     THEN w.items[k].fields["type"] = JString("image_url")
                                     ELSE /\ w.items[k].fields["type"] = JString("text")
                                          /\ w.items[k].fields["text"] = JString(kept[k].text)
                           ELSE IF texts # <<>>
                           THEN w = JString(Flatten([k \in 1..Len(texts) |-> texts[k].text]))
                           ELSE w = JNull

\* a reasoning part and a text part, no image: the content is the one
\* string "ba"
C32_Witness ==
    /\ result.tag = "ok"
    /\ Len(args.messages) = 1
    /\ args.messages[1].role = "assistant"
    /\ args.messages[1].content = MParts(<<PartReasoning(<<"b">>), PartText(<<"a">>)>>)
    /\ result.wire[1].fields["content"] = JString(<<"b", "a">>)

\* C33 as stated: the wire assistant message has a tool_calls array exactly
\* when the Parts content has a ToolCall part whose tool_name is not the
\* empty string, and the array holds exactly those parts, in order.
C33_NonEmptyNamesListed ==
    result.tag = "ok" =>
        \A i \in 1..Len(args.messages) :
            args.messages[i].role = "assistant" =>
                LET c == args.messages[i].content
                    m == WireOf(i).fields
                    named == IF c.kind = "parts"
                             THEN SelectSeq(c.parts, IsNamedToolCall) ELSE <<>>
                IN /\ ("tool_calls" \in DOMAIN m) <=> (named # <<>>)
                   /\ "tool_calls" \in DOMAIN m =>
                        /\ Len(m["tool_calls"].items) = Len(named)
                        /\ \A k \in 1..Len(named) :
                             m["tool_calls"].items[k].fields["id"] =
                                 JString(named[k].tool_call_id)

\* C33: the wire assistant message has a tool_calls array exactly when the
\* Parts content has a ToolCall part whose tool_name is not blank (empty or
\* whitespace only); the array holds exactly those parts, in order, with
\* their ids and names; Text content never yields tool_calls.
C33_NonBlankNamesListed ==
    result.tag = "ok" =>
        \A i \in 1..Len(args.messages) :
            args.messages[i].role = "assistant" =>
                LET c == args.messages[i].content
                    m == WireOf(i).fields
                    named == IF c.kind = "parts"
                             THEN SelectSeq(c.parts, IsNonBlankToolCall) ELSE <<>>
                IN /\ ("tool_calls" \in DOMAIN m) <=> (named # <<>>)
                   /\ "tool_calls" \in DOMAIN m =>
                        /\ Len(m["tool_calls"].items) = Len(named)
                        /\ \A k \in 1..Len(named) :
                             /\ m["tool_calls"].items[k].fields["id"] =
                                    JString(named[k].tool_call_id)
                             /\ m["tool_calls"].items[k].fields["function"].fields["name"] =
                                    JString(named[k].tool_name)

\* a call with a blank name before a named call: only the named call is
\* listed
C33_Witness ==
    /\ result.tag = "ok"
    /\ Len(args.messages) = 1
    /\ args.messages[1].role = "assistant"
    /\ args.messages[1].content.kind = "parts"
    /\ Len(args.messages[1].content.parts) = 2
    /\ args.messages[1].content.parts[1].part = "tool_call"
    /\ args.messages[1].content.parts[1].tool_name = <<" ">>
    /\ args.messages[1].content.parts[2].part = "tool_call"
    /\ args.messages[1].content.parts[2].tool_name = <<"f">>
    /\ "tool_calls" \in DOMAIN result.wire[1].fields
    /\ Len(result.wire[1].fields["tool_calls"].items) = 1

\* C34: the wire assistant message has a reasoning_content member exactly
\* when provider_options has an openaiCompatible member that has a
\* reasoning_content member, and then the member equals that value
\* unchanged, the empty string included.
C34_ReasoningContentVerbatim ==
    result.tag = "ok" =>
        \A i \in 1..Len(args.messages) :
            args.messages[i].role = "assistant" =>
                LET o == args.messages[i].provider_options
                    m == WireOf(i).fields
                    compat == IF IsSome(o) /\ Unwrap(o).j = "object"
                                 /\ "openaiCompatible" \in DOMAIN Unwrap(o).fields
                              THEN Some(Unwrap(o).fields["openaiCompatible"]) ELSE None
                    given == /\ IsSome(compat)
                             /\ Unwrap(compat).j = "object"
                             /\ "reasoning_content" \in DOMAIN Unwrap(compat).fields
                IN /\ ("reasoning_content" \in DOMAIN m) <=> given
                   /\ given => m["reasoning_content"] =
                                   Unwrap(compat).fields["reasoning_content"]

\* provider_options carry an empty reasoning_content and the wire message
\* carries it as the empty string
C34_Witness ==
    /\ result.tag = "ok"
    /\ Len(args.messages) = 1
    /\ args.messages[1].role = "assistant"
    /\ args.messages[1].provider_options =
           Some(JMap("openaiCompatible" :> JMap("reasoning_content" :> JString(<<>>))))
    /\ "reasoning_content" \in DOMAIN result.wire[1].fields
    /\ result.wire[1].fields["reasoning_content"] = JString(<<>>)

(***************************************************************************)
(* Consistency of the stream state                                         *)
(***************************************************************************)
OrderedKeys == {tool_call_order[i] : i \in 1..Len(tool_call_order)}
ToolCallEvents == SelectSeq(synth, IsToolCall)
TextStarts(events) == Len(SelectSeq(events, LAMBDA e : e = TextStart))
\* the frame is a JSON payload whose first choice has a delta member
HasDelta(data) ==
    /\ data.kind = "json"
    /\ data.payload.choices # <<>>
    /\ IsSome(Head(data.payload.choices).delta)

\* C35: in every reachable state the keys of tool_calls are the elements of
\* tool_call_order, emitted_tool_calls is a subset of them, every id stored
\* in tool_call_index_map is a key of tool_calls, and no step removes a key
\* from emitted_tool_calls.
C35_KeySetsAgree ==
    /\ [](/\ DOMAIN tool_calls = OrderedKeys
          /\ emitted_tool_calls \subseteq OrderedKeys
          /\ \A i \in DOMAIN tool_call_index_map :
                tool_call_index_map[i] \in DOMAIN tool_calls)
    /\ [][emitted_tool_calls \subseteq emitted_tool_calls']_vars

\* two keys, one resolved from an index alone and one recorded in the index
\* map, and one of them already emitted
C35_Witness ==
    /\ "0" \in DOMAIN tool_calls
    /\ tool_call_index_map = (1 :> "call_2")
    /\ Len(tool_call_order) = 2
    /\ Cardinality(emitted_tool_calls) = 1

\* C36: in every reachable state each accumulator's tool_call_id is the key
\* under which it is stored, every ToolCall event carries the key of an
\* emitted accumulator as its tool_call_id, and there is one ToolCall event
\* per emitted key, so no two keys emit the same id.
C36_IdIsKey ==
    /\ \A k \in DOMAIN tool_calls : tool_calls[k].tool_call_id = k
    /\ \A i \in 1..Len(ToolCallEvents) : ToolCallEvents[i].tool_call_id \in emitted_tool_calls
    /\ Len(ToolCallEvents) = Cardinality(emitted_tool_calls)
    /\ \A i, j \in 1..Len(ToolCallEvents) :
          ToolCallEvents[i].tool_call_id = ToolCallEvents[j].tool_call_id => i = j

\* a key made from the index and a key that is an id, both emitted
C36_Witness ==
    /\ emitted_tool_calls = {"0", "call_1"}
    /\ tool_calls["0"].tool_call_id = "0"
    /\ Len(ToolCallEvents) = 2

\* C37: in a stream whose tool-call entries all carry index 0 and the id
\* call_1 or no id, every entry resolves to the same key: there is at most
\* one accumulator and at most one ToolCall event.
C37_OneCallOneKey ==
    /\ Cardinality(DOMAIN tool_calls) <= 1
    /\ Len(ToolCallEvents) <= 1

\* C38: TextStart is queued by the first frame whose first choice has a
\* delta member, with or without text content, and by no other frame;
\* text_started is set by that frame and never reset; so the events hold
\* exactly one TextStart once a delta was seen, and none before.
C38_TextStartOnFirstDelta ==
    /\ [](TextStarts(AllEvents) = IF text_started THEN 1 ELSE 0)
    /\ [][IsCall =>
             /\ text_started' = (text_started \/ HasDelta(frame'))
             /\ TextStarts(NewEvents) =
                   IF HasDelta(frame') /\ ~text_started THEN 1 ELSE 0]_vars

\* two frames with tool-call deltas and no text: one TextStart was delivered
C38_Witness ==
    /\ calls = 3
    /\ text_started
    /\ \A i \in 1..Len(AllEvents) : ~IsTextDelta(AllEvents[i])
    /\ TextStarts(delivered) = 1
    /\ "call_1" \in DOMAIN tool_calls
    /\ Len(tool_calls["call_1"].arguments) = 2

\* C39: collect_text returns Ok only at the first Done or at the end of a
\* stream that had no Done, Error event, Err item or timeout.  In both cases
\* the result holds the trimmed text and the count of the deltas received up
\* to that point, so a stream that just ends gives what a Done at that point
\* would give; a stream that ends this way never gives an error, and no item
\* after the first Done is consumed.
C39_EndOfStreamIsDone ==
    LET n == StopIndex(args.items)
        deltas == DeltasBefore(args.items, n)
    IN
    /\ n > Len(args.items) =>
          /\ result.tag # "err"
          /\ (result.tag = "running" /\ result.consumed = Len(args.items)) =>
                ENABLED CollectEnd
    /\ result.consumed <= n
    /\ result.tag = "ok" =>
          /\ n > Len(args.items) \/ args.items[n] = ItemOk(Done(Some("stop")))
          /\ result.consumed = IF n > Len(args.items) THEN Len(args.items) ELSE n
          /\ result.text = Trim(ConcatTexts(deltas))
          /\ result.delta_count = Len(deltas)

\* a stream of three events that ends without Done: Ok with both deltas
C39_Witness ==
    /\ args.items = <<ItemOk(TextDelta(<<" ", "a">>)), ItemOk(TextStart),
                      ItemOk(TextDelta(<<"b", " ">>))>>
    /\ result.tag = "ok"
    /\ result.consumed = 3
    /\ result.text = <<"a", "b">>
    /\ result.delta_count = 2

\* C40: once pty_kill(id) has returned Ok, no further pty-output event for
\* id is emitted, the registry does not contain id, and a later pty_write
\* or pty_kill for id returns the not-found error.
C40_KillSilencesSession ==
    \A id \in DOMAIN killed :
        /\ \A i \in (killed[id] + 1)..Len(app_events) :
              ~(app_events[i].event = "pty-output" /\ app_events[i].pty_id = id)
        /\ id \notin PTY_SESSIONS
        /\ (pty_ret.fn \in {"pty_write", "pty_kill"} /\ pty_ret.pty_id = id) =>
              \/ pty_ret.res = "not_found"
              \/ pty_ret = Returned("pty_kill", id, "ok")

====
